---- MODULE Spec2Model ----
(***************************************************************************)
(* Model of the video-processing pipeline of youtube-daily-digest:          *)
(*   services.VideoProcessor (ProcessNewVideos, processChannel,            *)
(*   processVideo), storage.ExcelStorage (the ledger, one workbook file    *)
(*   that every operation opens, changes in memory and writes back whole)  *)
(*   and the digest step of runApp. Spec runs the channel goroutines       *)
(*   concurrently, SpecSeq runs at most one; SpecText follows one          *)
(*   processVideo call with the texts it builds and hands on.              *)
(***************************************************************************)
EXTENDS Integers, Sequences, FiniteSets, TLC

\* ------------------------------------------------------------------ bounds
NumChannels == 2          \* rows of the Channels sheet
NumChannelIds == 2        \* distinct channel ids among those rows
NumVideos == 3            \* video ids the Discoverer can return
MaxVideosPerChannel == 2  \* config.YouTube.MaxVideosPerChannel
MaxConcurrentVideos == 2  \* largest config.Processing.MaxConcurrentVideos
MaxRuns == 2              \* invocations of runApp on the same workbook
MaxFaults == 1            \* collaborator / file failures injected in all
MaxTitleLen == 6          \* longest video title, in bytes
MaxDescriptionLen == 11   \* longest video description, in bytes
MaxRealTranscriptLen == 4 \* longest transcript the Transcript API returns
MaxTranscriptLength == 120 \* largest config.AI.MaxTranscriptLength
NumInstants == 2          \* seconds of the calendar a timestamp can name
MaxNanos == 1             \* largest sub-second part of a timestamp
MaxViewCount == 12        \* largest view count of a video
MaxApiCalls == 2          \* calls of the read-only accessors

\* ------------------------------------------------------------ data model
\* The Channels sheet as the user filled it in: row i monitors ChannelIdOf(i);
\* with more rows than ids a channel is listed twice.
ChannelIdOf(i) == ((i - 1) % NumChannelIds) + 1

AllChannels == [i \in 1..NumChannels |-> ChannelIdOf(i)]

\* The channel a video belongs to (the Discoverer filters by channelId).
ChannelOf(v) == ((v - 1) % NumChannelIds) + 1

VideosOf(c) == {v \in 1..NumVideos : ChannelOf(v) = c}

\* Results of GetChannelVideos: at most maxResults videos of the channel,
\* most recent (highest id) first.
VideoLists(c) ==
  {s \in UNION {[1..n -> VideosOf(c)] : n \in 0..MaxVideosPerChannel} :
     \A i, j \in DOMAIN s : i < j => s[i] > s[j]}

\* The workbook: the Summaries sheet and the ProcessedVideos sheet (rows below
\* the header row).
EmptyFile == [summaries |-> <<>>, processed |-> <<>>]

Range(s) == {s[i] : i \in DOMAIN s}

\* generateSummaryID: 8 random bytes in hex. Two draws are taken to differ;
\* the id is named after the draw: the run, the goroutine and its loop index.
generateSummaryID(r, t, i) == <<r, t, i>>

\* types.Summary as processVideo builds it.
NewSummaryStatus == "New"

SummaryRecord(id, vid) == [id |-> id, vid |-> vid, status |-> NewSummaryStatus]

IdleTask == [pc |-> "none", videos |-> <<>>, vi |-> 0, snap |-> EmptyFile,
             sid |-> <<>>, second |-> FALSE]

\* ------------------------------------------------- texts of processVideo
\* Texts are Go strings: len and slicing count bytes, one character of the
\* model is one byte.
RECURSIVE Repeat(_, _)
Repeat(c, n) == IF n = 0 THEN "" ELSE c \o Repeat(c, n - 1)

\* types.Video as far as processVideo reads its texts.
Videos ==
  {[title |-> Repeat("x", n), description |-> Repeat("z", m)] :
     n \in 0..MaxTitleLen, m \in 0..MaxDescriptionLen}

\* What GetTranscriptWithThumbnail can return as the transcript.
RealTranscripts == {Repeat("q", n) : n \in 0..MaxRealTranscriptLen}

\* Line 179: a fallback text shorter than this is replaced.
MinFallbackLength == 50

\* Line 188.
TruncationMarker == "... [truncated]"

\* Line 178: the title and the description, each with its label.
LabelledFallback(video) ==
  "Video Title: " \o video.title \o "\n\nVideo Description: "
    \o video.description

\* Line 180: the templated sentence with the title.
GenericFallback(video) ==
  "Video Title: " \o video.title
    \o "\n\nThis video discusses topics related to the title."
    \o " Please watch the video for detailed content."

\* Mutant: the fallback text is built from the description alone.
FallbackTranscriptWithoutTitle(video) ==
  "Video Description: " \o video.description

\* Mutant: the threshold is applied to the description, not to the text.
FallbackTranscriptByDescription(video) ==
  IF Len(video.description) < MinFallbackLength
    THEN GenericFallback(video)
    ELSE LabelledFallback(video)

\* Lines 178-181: the labelled text, or the templated sentence when the
\* labelled text is shorter than 50 bytes.
FallbackTranscript(video) ==
  IF Len(LabelledFallback(video)) < MinFallbackLength
    THEN GenericFallback(video)
    ELSE LabelledFallback(video)

\* Mutant: the marker is counted into the maximum length.
TruncatedToFit(transcript, maxLength) ==
  IF Len(transcript) > maxLength
    THEN SubSeq(transcript, 1, maxLength - Len(TruncationMarker))
           \o TruncationMarker
    ELSE transcript

\* Lines 187-190: transcript[:MaxTranscriptLength] + marker.
Truncated(transcript, maxLength) ==
  IF Len(transcript) > maxLength
    THEN SubSeq(transcript, 1, maxLength) \o TruncationMarker
    ELSE transcript

\* strings.Contains
Contains(s, sub) ==
  \E i \in 1..(Len(s) - Len(sub) + 1) : SubSeq(s, i, i + Len(sub) - 1) = sub

\* No processVideo call with texts is in progress.
IdleCall ==
  [pc |-> "idle", mtl |-> 1, video |-> [title |-> "", description |-> ""],
   acqFailed |-> FALSE, raw |-> "", transcript |-> "", calls |-> 0,
   handed |-> "", result |-> "none", saved |-> FALSE, marked |-> FALSE,
   failed |-> {}, videoCtxDone |-> FALSE, client |-> "rapidapi",
   rapidFailed |-> FALSE, dataTranscript |-> "", dataThumbnail |-> "",
   thumbnailURL |-> ""]

\* video.ID of the video of the processVideo call with texts.
TextVideoID == "v1"

\* transcript.go line 166: the thumbnail URL every video has.
StandardThumbnail(videoID) ==
  "https://img.youtube.com/vi/" \o videoID \o "/hqdefault.jpg"

\* transcript.go lines 171-178: a thumbnail of the API response whose URL
\* ends in .jpg and has no query.
ApiThumbnail(videoID) ==
  "https://i.ytimg.com/vi/" \o videoID \o "/sddefault.jpg"

\* part_001 line 183 and transcript.go line 244.
MaxResThumbnail(videoID) ==
  "https://img.youtube.com/vi/" \o videoID \o "/maxresdefault.jpg"

\* MockTranscriptClient.GetTranscriptWithThumbnail: the text it makes up.
MockTranscript(videoID) ==
  "This is a mock transcript for video " \o videoID \o ". " \o
  "In this video, we discuss various topics including technology, innovation, and best practices. " \o
  "The main points covered are: 1) Understanding the fundamentals, 2) Implementing solutions effectively, " \o
  "3) Best practices for optimization, and 4) Future considerations. " \o
  "This mock transcript is used for testing purposes and demonstrates how the summarization system works " \o
  "with actual transcript content."


\* ------------------------------------------- rows of the Summaries sheet
\* time.Time values: a second of the calendar and the nanoseconds within it.
Instants == [sec : 1..NumInstants, nsec : 0..MaxNanos]

\* Format("2006-01-02 15:04:05"): the text of the second; the layout has no
\* field for the fraction.
FormatTime(t) == "2024-05-01 10:00:0" \o ToString(t.sec)

\* time.Parse with the layouts "2006-01-02 15:04:05" and "2006-01-02": the
\* instant the text names (at nanosecond 0), or an error.
ParseTime(text) ==
  IF \E i \in 1..NumInstants : text = FormatTime([sec |-> i, nsec |-> 0])
    THEN [ok |-> TRUE,
          time |-> [sec |-> CHOOSE i \in 1..NumInstants :
                               text = FormatTime([sec |-> i, nsec |-> 0]),
                    nsec |-> 0]]
    ELSE [ok |-> FALSE, time |-> [sec |-> 0, nsec |-> 0]]

DecimalDigits == <<"0", "1", "2", "3", "4", "5", "6", "7", "8", "9">>

RECURSIVE FormatInt(_)
\* strconv.FormatInt(n, 10) for n >= 0.
FormatInt(n) ==
  IF n < 10 THEN DecimalDigits[n + 1]
            ELSE FormatInt(n \div 10) \o DecimalDigits[(n % 10) + 1]

RECURSIVE ParseDigits(_, _)
ParseDigits(text, acc) ==
  IF text = "" THEN acc
  ELSE ParseDigits(SubSeq(text, 2, Len(text)),
                   10 * acc + ((CHOOSE d \in 1..10 :
                                  DecimalDigits[d] = SubSeq(text, 1, 1)) - 1))

\* ToSummary lines 87-92: strconv.ParseInt of a non-empty cell, 0 when the
\* cell is empty or not a number.
ParseViewCount(text) ==
  IF /\ text # ""
     /\ \A i \in 1..Len(text) :
          \E d \in 1..10 : DecimalDigits[d] = SubSeq(text, i, i)
    THEN ParseDigits(text, 0)
    ELSE 0

\* FromSummary: the record as the twelve texts of an ExcelSummary.
FromSummary(summary) ==
  [ID |-> summary.ID,
   VideoID |-> summary.VideoID,
   VideoTitle |-> summary.VideoTitle,
   ChannelName |-> summary.ChannelName,
   Summary |-> summary.Summary,
   CreatedAt |-> FormatTime(summary.CreatedAt),
   Status |-> summary.Status,
   VideoURL |-> summary.VideoURL,
   PublishedAt |-> FormatTime(summary.PublishedAt),
   ThumbnailURL |-> summary.ThumbnailURL,
   Duration |-> summary.Duration,
   ViewCount |-> FormatInt(summary.ViewCount)]

\* ToSummary: the texts of an ExcelSummary as a record; an unreadable
\* CreatedAt is an error, an unreadable PublishedAt becomes CreatedAt.
ToSummary(es) ==
  [ok |-> ParseTime(es.CreatedAt).ok,
   summary |->
     [ID |-> es.ID,
      VideoID |-> es.VideoID,
      VideoTitle |-> es.VideoTitle,
      ChannelName |-> es.ChannelName,
      Summary |-> es.Summary,
      CreatedAt |-> ParseTime(es.CreatedAt).time,
      Status |-> es.Status,
      VideoURL |-> es.VideoURL,
      PublishedAt |-> IF ParseTime(es.PublishedAt).ok
                        THEN ParseTime(es.PublishedAt).time
                        ELSE ParseTime(es.CreatedAt).time,
      ThumbnailURL |-> es.ThumbnailURL,
      Duration |-> es.Duration,
      ViewCount |-> ParseViewCount(es.ViewCount)]]

\* SaveSummary lines 160-177: the cells written to the new row, columns A
\* to H.
SummaryCells(es) ==
  <<es.ID, es.VideoID, es.VideoTitle, es.ChannelName, es.Summary,
    es.CreatedAt, es.Status, es.VideoURL>>

RECURSIVE TrimRow(_)
\* GetRows: a row is returned up to its last non-empty cell.
TrimRow(cells) ==
  IF cells = <<>> THEN <<>>
  ELSE IF cells[Len(cells)] = "" THEN TrimRow(SubSeq(cells, 1, Len(cells) - 1))
  ELSE cells

\* Cell n of a row as GetPendingSummaries reads it: columns beyond the row's
\* length leave the field of the ExcelSummary empty.
CellOr(row, n) == IF Len(row) >= n THEN row[n] ELSE ""

RECURSIVE ReadPending(_)
\* GetPendingSummaries lines 198-247 over the data rows of the sheet.
ReadPending(rows) ==
  IF rows = <<>> THEN <<>>
  ELSE LET row == rows[1]
           es == [ID |-> CellOr(row, 1), VideoID |-> CellOr(row, 2),
                  VideoTitle |-> CellOr(row, 3),
                  ChannelName |-> CellOr(row, 4), Summary |-> CellOr(row, 5),
                  CreatedAt |-> CellOr(row, 6), Status |-> CellOr(row, 7),
                  VideoURL |-> CellOr(row, 8), PublishedAt |-> CellOr(row, 9),
                  ThumbnailURL |-> CellOr(row, 10),
                  Duration |-> CellOr(row, 11), ViewCount |-> CellOr(row, 12)]
           rest == ReadPending(SubSeq(rows, 2, Len(rows)))
       IN IF Len(row) < 7 THEN rest
          ELSE IF row[7] # "New" THEN rest
          ELSE IF ~ToSummary(es).ok THEN rest
          ELSE <<ToSummary(es).summary>> \o rest

\* processVideo lines 199-212: the records SaveSummary is given. The id and
\* the texts are fixed, the metadata vary.
SummaryRecords ==
  [ID : {"sum_1"},
   VideoID : {"v1"},
   VideoTitle : {"", "T"},
   ChannelName : {"C"},
   Summary : {"S"},
   CreatedAt : Instants,
   Status : {"New"},
   VideoURL : {"https://www.youtube.com/watch?v=v1"},
   PublishedAt : Instants,
   ThumbnailURL : {"https://img.youtube.com/vi/v1/maxresdefault.jpg", "U"},
   Duration : {"", "PT5M"},
   ViewCount : 0..MaxViewCount]

\* No record is on its way.
IdleRow ==
  [pc |-> "idle", record |-> <<>>, rows |-> <<>>, read |-> <<>>,
   result |-> "none"]

\* No call of the read-only accessors has been made.
IdleApi ==
  [calls |-> 0, op |-> "none", err |-> FALSE, summaries |-> <<>>, pending |-> 0]

VARIABLES
  channels,     \* Channels sheet: sequence of channel ids
  maxConcurrent,\* config.Processing.MaxConcurrentVideos (K), at least 1
  file,         \* the workbook on disk
  mainPc,       \* position of runApp / ProcessNewVideos
  tasks,        \* the channel goroutines of the current run
  sem,          \* len(semaphore)
  wg,           \* WaitGroup counter
  errorsChan,   \* buffered errorsChan: indices of the failed channels
  result,       \* return value of ProcessNewVideos: "none" | "nil" | "error"
  errorCount,   \* len(errors) after collection
  batch,        \* summaries handed to the digest step
  mainSnap,     \* workbook opened by MarkSummariesProcessed
  summaryIDs,   \* runApp's summaryIDs: the ids given to MarkSummariesProcessed
  run,          \* number of the current run
  faults,       \* failures injected so far
  \* history of the current run
  listFailed,   \* GetChannels failed
  attempts,     \* processChannel calls per channel row
  discFailed,   \* rows whose GetChannelVideos failed
  vidFailed,    \* rows in which processVideo returned an error
  fileAtStart,  \* the workbook when the run started
  \* history across runs
  everMarked,   \* video ids the ProcessedVideos sheet has ever held
  everProcessed,\* summary ids whose status has ever been Processed
  markedPrior,  \* everMarked when the current run started
  written,      \* summary ids whose SaveSummary wrote the file and returned nil
  markWritten,  \* video ids whose MarkVideoProcessed wrote the file and returned nil
  okVideos,     \* video ids for which processVideo has returned nil
  secondDone,   \* video ids handled again after processVideo returned nil
  sentOk,       \* summary ids of the digests SendDigest reported as sent
  acked,        \* summary ids for which MarkSummariesProcessed returned nil
  unsent,       \* summary ids of a failed digest that were not sent since
  sumFailed,    \* video ids for which Summarize has failed
  pv,           \* one processVideo call with its texts (specification SpecText)
  cancelled,    \* the ctx given to ProcessNewVideos is done
  api,          \* last result of the read-only accessors of VideoProcessor
  rt            \* one summary record on its way to the Summaries sheet and back

vars == <<channels, maxConcurrent, file, mainPc, tasks, sem, wg, errorsChan,
          result, errorCount, batch, mainSnap, run, faults, listFailed,
          attempts, discFailed, vidFailed, fileAtStart, everMarked,
          everProcessed, markedPrior, written, markWritten, okVideos,
          secondDone, summaryIDs, sentOk, acked, unsent, sumFailed, pv,
          cancelled, api, rt>>

\* what the channel goroutines never touch
mainVars == <<channels, maxConcurrent, mainPc, result, errorCount, batch,
              mainSnap, run, listFailed, fileAtStart, markedPrior, summaryIDs,
              sentOk, acked, unsent>>

\* everything but the processVideo call of SpecText
pipelineVars == <<channels, maxConcurrent, file, mainPc, tasks, sem, wg,
                  errorsChan, result, errorCount, batch, mainSnap, run, faults,
                  listFailed, attempts, discFailed, vidFailed, fileAtStart,
                  everMarked, everProcessed, markedPrior, written, markWritten,
                  okVideos, secondDone, summaryIDs, sentOk, acked, unsent,
                  sumFailed>>

\* what only the specifications of a single concern change
extraVars == <<cancelled, api, rt>>

\* the digest step's argument and history
digestHist == <<summaryIDs, sentOk, acked, unsent>>

syncVars == <<sem, wg, errorsChan>>

\* history that only the steps of processVideo extend
videoHist == <<written, markWritten, okVideos>>

Rows == 1..NumChannels

\* ------------------------------------------------------------------ Init
InitWith(chs, k) ==
  /\ channels = chs
  /\ maxConcurrent = k
  /\ file = EmptyFile
  /\ mainPc = "idle"
  /\ tasks = [t \in Rows |-> IdleTask]
  /\ sem = 0
  /\ wg = 0
  /\ errorsChan = <<>>
  /\ result = "none"
  /\ errorCount = 0
  /\ batch = <<>>
  /\ mainSnap = EmptyFile
  /\ run = 1
  /\ faults = 0
  /\ listFailed = FALSE
  /\ attempts = [t \in Rows |-> 0]
  /\ discFailed = {}
  /\ vidFailed = {}
  /\ fileAtStart = EmptyFile
  /\ everMarked = {}
  /\ everProcessed = {}
  /\ markedPrior = {}
  /\ written = {}
  /\ markWritten = {}
  /\ okVideos = {}
  /\ secondDone = {}
  /\ summaryIDs = {}
  /\ sentOk = {}
  /\ acked = {}
  /\ unsent = {}
  /\ sumFailed = {}
  /\ cancelled = FALSE
  /\ api = IdleApi

Init ==
  /\ \E n \in 0..NumChannels, k \in 1..MaxConcurrentVideos :
       InitWith(SubSeq(AllChannels, 1, n), k)
  /\ pv = IdleCall
  /\ rt = IdleRow

\* At most one channel row: its goroutine is alone, every ledger call is
\* sequential.
InitSeq ==
  /\ \E n \in 0..1, k \in 1..MaxConcurrentVideos :
       InitWith(SubSeq(AllChannels, 1, n), k)
  /\ pv = IdleCall
  /\ rt = IdleRow

\* One call of processVideo on an empty ledger, with its texts: any video,
\* any configured maximum transcript length.
InitText ==
  /\ InitWith(<<>>, 1)
  /\ \E video \in Videos, m \in 1..MaxTranscriptLength :
       pv = [IdleCall EXCEPT !.pc = "start", !.video = video, !.mtl = m]
  /\ rt = IdleRow

\* --------------------------------------------------------- ledger helpers
\* file.SaveAs: the whole workbook is replaced by the in-memory copy.
WriteFile(f) ==
  /\ file' = f
  /\ everMarked' = everMarked \cup Range(f.processed)
  /\ everProcessed' = everProcessed \cup
       {f.summaries[i].id : i \in {j \in DOMAIN f.summaries :
                                     f.summaries[j].status = "Processed"}}

\* IsVideoProcessed: a row of the ProcessedVideos sheet holds the id.
IsVideoProcessed(f, vid) == \E i \in DOMAIN f.processed : f.processed[i] = vid

\* SaveSummary lines 151-177: the record goes to row len(rows)+1.
WithSummary(f, rec) == [f EXCEPT !.summaries = Append(@, rec)]

\* MarkVideoProcessed lines 354-375: the id goes to row len(rows)+1.
WithMark(f, vid) == [f EXCEPT !.processed = Append(@, vid)]

\* GetPendingSummaries: the rows whose status cell is "New", in sheet order.
PendingSummaries(f) == SelectSeq(f.summaries, LAMBDA r : r.status = "New")

\* Mutant: the status column is rewritten for every row, "New" for the rows
\* that are not in the list.
WithProcessedResetting(f, ids) ==
  [f EXCEPT !.summaries =
     [i \in DOMAIN @ |-> IF @[i].id \in ids
                           THEN [@[i] EXCEPT !.status = "Processed"]
                           ELSE [@[i] EXCEPT !.status = "New"]]]

\* MarkSummariesProcessed lines 275-299: column G of every row whose id is in
\* the list becomes "Processed".
WithProcessed(f, ids) ==
  [f EXCEPT !.summaries =
     [i \in DOMAIN @ |-> IF @[i].id \in ids
                           THEN [@[i] EXCEPT !.status = "Processed"]
                           ELSE @[i]]]

SummaryIds(f) == {f.summaries[i].id : i \in DOMAIN f.summaries}

SummaryCount(f, vid) ==
  Cardinality({i \in DOMAIN f.summaries : f.summaries[i].vid = vid})

MarkCount(f, vid) ==
  Cardinality({i \in DOMAIN f.processed : f.processed[i] = vid})

\* ------------------------------------------------ ProcessNewVideos (main)
\* Mutant: the gate admits one goroutine too many.
SemHasRoomOffByOne == sem <= maxConcurrent

\* semaphore <- struct{}{} proceeds while the buffer holds fewer than
\* config.Processing.MaxConcurrentVideos tokens.
SemHasRoom == sem < maxConcurrent

\* Mutant: ProcessNewVideos does not wait for its goroutines.
WaitReadyNoJoin == TRUE

\* wg.Wait() returns when the counter is zero.
WaitReady == wg = 0

\* Mutant: a failed channel fails the whole call.
ProcessNewVideosResultFailing(nErrors) == IF nErrors > 0 THEN "error" ELSE "nil"

\* Lines 91-100: the collected errors are logged, nil is returned.
ProcessNewVideosResult(nErrors) == "nil"

\* Mutant: the channel-list error is swallowed.
GetChannelsFailsIgnored ==
  /\ mainPc = "idle"
  /\ faults < MaxFaults
  /\ faults' = faults + 1
  /\ listFailed' = TRUE
  /\ result' = "nil"
  /\ mainPc' = "returned"
  /\ fileAtStart' = file
  /\ UNCHANGED <<pv, extraVars,
                 sumFailed, digestHist, channels, maxConcurrent, file,
                 tasks, syncVars, errorCount, batch, mainSnap, run, attempts,
                 discFailed, vidFailed, everMarked, everProcessed,
                 markedPrior, videoHist, secondDone>>

\* Lines 48-51: GetChannels fails, the error is returned.
GetChannelsFails ==
  /\ mainPc = "idle"
  /\ faults < MaxFaults
  /\ faults' = faults + 1
  /\ listFailed' = TRUE
  /\ result' = "error"
  /\ mainPc' = "returned"
  /\ fileAtStart' = file
  /\ UNCHANGED <<pv, extraVars,
                 sumFailed, digestHist, channels, maxConcurrent, file,
                 tasks, syncVars, errorCount, batch, mainSnap, run, attempts,
                 discFailed, vidFailed, everMarked, everProcessed,
                 markedPrior, videoHist, secondDone>>

\* Mutant: an empty channel list is reported as an error.
NoChannelsFailing ==
  /\ mainPc = "idle"
  /\ Len(channels) = 0
  /\ result' = "error"
  /\ mainPc' = "returned"
  /\ fileAtStart' = file
  /\ UNCHANGED <<pv, extraVars,
                 sumFailed, digestHist, channels, maxConcurrent, file,
                 tasks, syncVars, errorCount, batch, mainSnap, run, faults,
                 listFailed, attempts, discFailed, vidFailed, everMarked,
                 everProcessed, markedPrior, videoHist, secondDone>>

\* Lines 53-56: no channel configured.
NoChannels ==
  /\ mainPc = "idle"
  /\ Len(channels) = 0
  /\ result' = "nil"
  /\ mainPc' = "returned"
  /\ fileAtStart' = file
  /\ UNCHANGED <<pv, extraVars,
                 sumFailed, digestHist, channels, maxConcurrent, file,
                 tasks, syncVars, errorCount, batch, mainSnap, run, faults,
                 listFailed, attempts, discFailed, vidFailed, everMarked,
                 everProcessed, markedPrior, videoHist, secondDone>>

\* Lines 61-79: the semaphore, the WaitGroup, errorsChan and one goroutine per
\* channel row; each goroutine starts at the semaphore.
SpawnTasks ==
  /\ mainPc = "idle"
  /\ Len(channels) > 0
  /\ tasks' = [t \in Rows |-> IF t <= Len(channels)
                                THEN [IdleTask EXCEPT !.pc = "acquire"]
                                ELSE IdleTask]
  /\ sem' = 0
  /\ wg' = Len(channels)
  /\ errorsChan' = <<>>
  /\ mainPc' = "wait"
  /\ fileAtStart' = file
  /\ UNCHANGED <<pv, extraVars,
                 sumFailed, digestHist, channels, maxConcurrent, file,
                 result, errorCount, batch, mainSnap, run, faults, listFailed,
                 attempts, discFailed, vidFailed, everMarked, everProcessed,
                 markedPrior, videoHist, secondDone>>

\* Lines 82-100: wg.Wait, close(errorsChan), collect, return.
Join ==
  /\ mainPc = "wait"
  /\ WaitReady
  /\ errorCount' = Len(errorsChan)
  /\ result' = ProcessNewVideosResult(Len(errorsChan))
  /\ mainPc' = "returned"
  /\ UNCHANGED <<pv, extraVars,
                 sumFailed, digestHist, channels, maxConcurrent, file,
                 tasks, syncVars, batch, mainSnap, run, faults, listFailed,
                 attempts, discFailed, vidFailed, fileAtStart, everMarked,
                 everProcessed, markedPrior, videoHist, secondDone>>

\* ------------------------------------------------- channel goroutine steps
CurVideo(tk) == tk.videos[tk.vi]

\* Mutant: the loop passes over the video that follows the current one.
ContinueSkipping(tk) ==
  IF tk.vi + 2 <= Len(tk.videos)
    THEN [tk EXCEPT !.pc = "check", !.vi = tk.vi + 2, !.snap = EmptyFile,
                    !.sid = <<>>, !.second = FALSE]
    ELSE [tk EXCEPT !.pc = "release", !.vi = tk.vi + 2, !.snap = EmptyFile,
                    !.sid = <<>>, !.second = FALSE]

\* processChannel lines 117-151: the loop moves to the next video, or the
\* function returns nil after the last one.
Continue(tk) ==
  IF tk.vi + 1 <= Len(tk.videos)
    THEN [tk EXCEPT !.pc = "check", !.vi = tk.vi + 1, !.snap = EmptyFile,
                    !.sid = <<>>, !.second = FALSE]
    ELSE [tk EXCEPT !.pc = "release", !.vi = tk.vi + 1, !.snap = EmptyFile,
                    !.sid = <<>>, !.second = FALSE]

\* Mutant: a failed video ends the channel's loop.
FinishVideoAborting(t, failed, ok) ==
  /\ tasks' = [tasks EXCEPT ![t] = IF failed
                                     THEN [tasks[t] EXCEPT !.pc = "release"]
                                     ELSE Continue(tasks[t])]
  /\ vidFailed' = IF failed THEN vidFailed \cup {t} ELSE vidFailed
  /\ okVideos' = IF ok THEN okVideos \cup {CurVideo(tasks[t])} ELSE okVideos
  /\ secondDone' = IF tasks[t].second
                     THEN secondDone \cup {CurVideo(tasks[t])}
                     ELSE secondDone

\* The handling of the current video ends: processVideo returned an error
\* (failed), returned nil (ok), or was not entered.
FinishVideo(t, failed, ok) ==
  /\ tasks' = [tasks EXCEPT ![t] = Continue(tasks[t])]
  /\ vidFailed' = IF failed THEN vidFailed \cup {t} ELSE vidFailed
  /\ okVideos' = IF ok THEN okVideos \cup {CurVideo(tasks[t])} ELSE okVideos
  /\ secondDone' = IF tasks[t].second
                     THEN secondDone \cup {CurVideo(tasks[t])}
                     ELSE secondDone

\* Line 71: the goroutine takes a slot of the semaphore.
Acquire(t) ==
  /\ tasks[t].pc = "acquire"
  /\ SemHasRoom
  /\ sem' = sem + 1
  /\ tasks' = [tasks EXCEPT ![t].pc = "discover"]
  /\ UNCHANGED <<pv, extraVars,
                 sumFailed, mainVars, file, wg, errorsChan, faults,
                 attempts, discFailed, vidFailed, everMarked, everProcessed,
                 videoHist, secondDone>>

\* Mutant: the goroutine drops its channel's error instead of reporting it.
DiscoverFailsUnreported(t) ==
  /\ tasks[t].pc = "discover"
  /\ faults < MaxFaults
  /\ faults' = faults + 1
  /\ attempts' = [attempts EXCEPT ![t] = @ + 1]
  /\ discFailed' = discFailed \cup {t}
  /\ tasks' = [tasks EXCEPT ![t].pc = "release"]
  /\ UNCHANGED <<pv, extraVars,
                 sumFailed, mainVars, syncVars, file, vidFailed,
                 everMarked, everProcessed, videoHist, secondDone>>

\* Lines 108-111: GetChannelVideos fails, processChannel returns the error.
DiscoverFails(t) ==
  /\ tasks[t].pc = "discover"
  /\ faults < MaxFaults
  /\ faults' = faults + 1
  /\ attempts' = [attempts EXCEPT ![t] = @ + 1]
  /\ discFailed' = discFailed \cup {t}
  /\ tasks' = [tasks EXCEPT ![t].pc = "send_err"]
  /\ UNCHANGED <<pv, extraVars,
                 sumFailed, mainVars, syncVars, file, vidFailed,
                 everMarked, everProcessed, videoHist, secondDone>>

\* Mutant: a channel without videos is reported as a failed channel.
DiscoverOkEmptyIsError(t) ==
  /\ tasks[t].pc = "discover"
  /\ attempts' = [attempts EXCEPT ![t] = @ + 1]
  /\ \E vs \in VideoLists(channels[t]) :
       tasks' = [tasks EXCEPT ![t] =
                   IF vs = <<>>
                     THEN [tasks[t] EXCEPT !.pc = "send_err"]
                     ELSE Continue([tasks[t] EXCEPT !.videos = vs, !.vi = 0])]
  /\ UNCHANGED <<pv, extraVars,
                 sumFailed, mainVars, syncVars, file, faults, discFailed,
                 vidFailed, everMarked, everProcessed, videoHist, secondDone>>

\* Lines 108-117: GetChannelVideos returns the channel's recent videos; its
\* request carries ctx (youtube.go line 88), so it needs a live ctx.
DiscoverOk(t) ==
  /\ tasks[t].pc = "discover"
  /\ ~cancelled
  /\ attempts' = [attempts EXCEPT ![t] = @ + 1]
  /\ \E vs \in VideoLists(channels[t]) :
       tasks' = [tasks EXCEPT ![t] = Continue([tasks[t] EXCEPT !.videos = vs,
                                                               !.vi = 0])]
  /\ UNCHANGED <<pv, extraVars,
                 sumFailed, mainVars, syncVars, file, faults, discFailed,
                 vidFailed, everMarked, everProcessed, videoHist, secondDone>>

\* Mutant: a video whose check failed is taken for an unprocessed one.
CheckFailsProceeding(t) ==
  /\ tasks[t].pc = "check"
  /\ faults < MaxFaults
  /\ faults' = faults + 1
  /\ tasks' = [tasks EXCEPT ![t].pc = "summarize",
                             ![t].second = CurVideo(tasks[t]) \in okVideos]
  /\ secondDone' = secondDone
  /\ UNCHANGED <<pv, extraVars, sumFailed, mainVars, syncVars, file, attempts,
                 discFailed, vidFailed, everMarked, everProcessed, videoHist>>

\* Lines 125-129: IsVideoProcessed fails, the video is left for a later run.
CheckFails(t) ==
  /\ tasks[t].pc = "check"
  /\ faults < MaxFaults
  /\ faults' = faults + 1
  /\ tasks' = [tasks EXCEPT ![t] = Continue(tasks[t])]
  /\ secondDone' = IF CurVideo(tasks[t]) \in okVideos
                     THEN secondDone \cup {CurVideo(tasks[t])}
                     ELSE secondDone
  /\ UNCHANGED <<pv, extraVars, sumFailed, mainVars, syncVars, file, attempts,
                 discFailed, vidFailed, everMarked, everProcessed, videoHist>>

\* Mutant: the processed-check is ignored, every video goes to processVideo.
CheckDoneNoSkip(t) ==
  /\ tasks[t].pc = "check"
  /\ tasks' = [tasks EXCEPT ![t].pc = "summarize",
                             ![t].second = CurVideo(tasks[t]) \in okVideos]
  /\ UNCHANGED <<pv, extraVars, sumFailed, mainVars, syncVars, file, faults,
                 attempts, discFailed, vidFailed, everMarked, everProcessed,
                 videoHist, secondDone>>

\* Lines 125-137: a processed video is skipped, another goes to processVideo.
CheckDone(t) ==
  /\ tasks[t].pc = "check"
  /\ IF IsVideoProcessed(file, CurVideo(tasks[t]))
       THEN /\ tasks' = [tasks EXCEPT ![t] = Continue(tasks[t])]
            /\ secondDone' = IF CurVideo(tasks[t]) \in okVideos
                               THEN secondDone \cup {CurVideo(tasks[t])}
                               ELSE secondDone
       ELSE /\ tasks' = [tasks EXCEPT ![t].pc = "summarize",
                                      ![t].second = CurVideo(tasks[t]) \in okVideos]
            /\ secondDone' = secondDone
  /\ UNCHANGED <<pv, extraVars,
                 sumFailed, mainVars, syncVars, file, faults, attempts,
                 discFailed, vidFailed, everMarked, everProcessed, videoHist>>

\* Mutant: a failed Summarize is replaced by a substitute summary, which is
\* saved like any other.
SummarizeFailsSubstituting(t) ==
  /\ tasks[t].pc = "summarize"
  /\ faults < MaxFaults
  /\ faults' = faults + 1
  /\ sumFailed' = sumFailed \cup {CurVideo(tasks[t])}
  /\ tasks' = [tasks EXCEPT ![t].pc = "save_open",
                             ![t].sid = generateSummaryID(run, t, tasks[t].vi)]
  /\ UNCHANGED <<pv, extraVars,
                 mainVars, syncVars, file, attempts, discFailed,
                 vidFailed, everMarked, everProcessed, videoHist, secondDone>>

\* Lines 166-196: the transcript is fetched or replaced by the fallback text
\* and truncated (neither outcome changes the control flow); Summarize fails
\* and processVideo returns the error.
SummarizeFails(t) ==
  /\ tasks[t].pc = "summarize"
  /\ faults < MaxFaults
  /\ faults' = faults + 1
  /\ sumFailed' = sumFailed \cup {CurVideo(tasks[t])}
  /\ FinishVideo(t, TRUE, FALSE)
  /\ UNCHANGED <<pv, extraVars,
                 mainVars, syncVars, file, attempts, discFailed,
                 everMarked, everProcessed, written, markWritten>>

\* Lines 166-212: transcript as above; Summarize, whose request carries ctx
\* (youtube.go lines 302-312), succeeds and the record gets
\* the id generateSummaryID draws for it.
SummarizeOk(t) ==
  /\ tasks[t].pc = "summarize"
  /\ ~cancelled
  /\ tasks' = [tasks EXCEPT ![t].pc = "save_open",
                             ![t].sid = generateSummaryID(run, t, tasks[t].vi)]
  /\ UNCHANGED <<pv, extraVars,
                 sumFailed, mainVars, syncVars, file, faults, attempts,
                 discFailed, vidFailed, everMarked, everProcessed, videoHist,
                 secondDone>>

\* SaveSummary lines 140-143: OpenFile fails, the error is returned and
\* processVideo gives up on the video.
SaveOpenFails(t) ==
  /\ tasks[t].pc = "save_open"
  /\ faults < MaxFaults
  /\ faults' = faults + 1
  /\ FinishVideo(t, TRUE, FALSE)
  /\ UNCHANGED <<pv, extraVars, sumFailed, mainVars, syncVars, file, attempts,
                 discFailed, everMarked, everProcessed, written, markWritten>>

\* SaveSummary line 140: OpenFile reads the whole workbook into memory.
SaveOpenOk(t) ==
  /\ tasks[t].pc = "save_open"
  /\ tasks' = [tasks EXCEPT ![t].pc = "save_write", ![t].snap = file]
  /\ UNCHANGED <<pv, extraVars,
                 sumFailed, mainVars, syncVars, file, faults, attempts,
                 discFailed, vidFailed, everMarked, everProcessed, videoHist,
                 secondDone>>

\* SaveSummary lines 144-180: the row is set in memory, the deferred SaveAs
\* replaces the workbook, nil is returned.
SaveWriteOk(t) ==
  /\ tasks[t].pc = "save_write"
  /\ WriteFile(WithSummary(tasks[t].snap,
                           SummaryRecord(tasks[t].sid, CurVideo(tasks[t]))))
  /\ written' = written \cup {tasks[t].sid}
  /\ tasks' = [tasks EXCEPT ![t].pc = "mark_check", ![t].snap = EmptyFile]
  /\ UNCHANGED <<pv, extraVars,
                 sumFailed, mainVars, syncVars, faults, attempts,
                 discFailed, vidFailed, markWritten, okVideos, secondDone>>

\* SaveSummary lines 144-148: the deferred SaveAs fails; the error is only
\* logged and SaveSummary still returns nil.
SaveWriteLost(t) ==
  /\ tasks[t].pc = "save_write"
  /\ faults < MaxFaults
  /\ faults' = faults + 1
  /\ tasks' = [tasks EXCEPT ![t].pc = "mark_check", ![t].snap = EmptyFile]
  /\ UNCHANGED <<pv, extraVars, sumFailed, mainVars, syncVars, file, attempts,
                 discFailed, vidFailed, everMarked, everProcessed, videoHist,
                 secondDone>>

\* MarkVideoProcessed lines 335-338: its IsVideoProcessed call fails.
MarkCheckFails(t) ==
  /\ tasks[t].pc = "mark_check"
  /\ faults < MaxFaults
  /\ faults' = faults + 1
  /\ FinishVideo(t, TRUE, FALSE)
  /\ UNCHANGED <<pv, extraVars, sumFailed, mainVars, syncVars, file, attempts,
                 discFailed, everMarked, everProcessed, written, markWritten>>

\* MarkVideoProcessed lines 335-341: an id already on the sheet is not
\* written again.
MarkCheckDone(t) ==
  /\ tasks[t].pc = "mark_check"
  /\ IF IsVideoProcessed(file, CurVideo(tasks[t]))
       THEN FinishVideo(t, FALSE, TRUE)
       ELSE /\ tasks' = [tasks EXCEPT ![t].pc = "mark_open"]
            /\ UNCHANGED <<vidFailed, okVideos, secondDone>>
  /\ UNCHANGED <<pv, extraVars,
                 sumFailed, mainVars, syncVars, file, faults, attempts,
                 discFailed, everMarked, everProcessed, written, markWritten>>

\* MarkVideoProcessed lines 343-346: OpenFile fails.
MarkOpenFails(t) ==
  /\ tasks[t].pc = "mark_open"
  /\ faults < MaxFaults
  /\ faults' = faults + 1
  /\ FinishVideo(t, TRUE, FALSE)
  /\ UNCHANGED <<pv, extraVars, sumFailed, mainVars, syncVars, file, attempts,
                 discFailed, everMarked, everProcessed, written, markWritten>>

\* MarkVideoProcessed line 343: OpenFile reads the whole workbook.
MarkOpenOk(t) ==
  /\ tasks[t].pc = "mark_open"
  /\ tasks' = [tasks EXCEPT ![t].pc = "mark_write", ![t].snap = file]
  /\ UNCHANGED <<pv, extraVars,
                 sumFailed, mainVars, syncVars, file, faults, attempts,
                 discFailed, vidFailed, everMarked, everProcessed, videoHist,
                 secondDone>>

\* MarkVideoProcessed lines 347-378: the row is set, the deferred SaveAs
\* replaces the workbook, nil is returned and processVideo returns nil.
MarkWriteOk(t) ==
  /\ tasks[t].pc = "mark_write"
  /\ WriteFile(WithMark(tasks[t].snap, CurVideo(tasks[t])))
  /\ markWritten' = markWritten \cup {CurVideo(tasks[t])}
  /\ FinishVideo(t, FALSE, TRUE)
  /\ UNCHANGED <<pv, extraVars,
                 sumFailed, mainVars, syncVars, faults, attempts,
                 discFailed, written>>

\* MarkVideoProcessed lines 347-352: the deferred SaveAs fails; the error is
\* only logged, nil is returned and processVideo returns nil.
MarkWriteLost(t) ==
  /\ tasks[t].pc = "mark_write"
  /\ faults < MaxFaults
  /\ faults' = faults + 1
  /\ FinishVideo(t, FALSE, TRUE)
  /\ UNCHANGED <<pv, extraVars, sumFailed, mainVars, syncVars, file, attempts,
                 discFailed, everMarked, everProcessed, written, markWritten>>

\* Mutant: errorsChan has room for one error less than there are channels.
ErrorsChanCapShort == Len(channels) - 1

\* Line 63: make(chan error, len(channels)).
ErrorsChanCap == Len(channels)

\* Line 76: the goroutine reports its channel's error; the send waits while
\* the buffer of len(channels) errors is full.
SendErr(t) ==
  /\ tasks[t].pc = "send_err"
  /\ Len(errorsChan) < ErrorsChanCap
  /\ errorsChan' = Append(errorsChan, t)
  /\ tasks' = [tasks EXCEPT ![t].pc = "release"]
  /\ UNCHANGED <<pv, extraVars,
                 sumFailed, mainVars, file, sem, wg, faults, attempts,
                 discFailed, vidFailed, everMarked, everProcessed, videoHist,
                 secondDone>>

\* Mutant: the goroutine keeps its semaphore slot when it ends.
ExitKeepingSlot(t) ==
  /\ tasks[t].pc = "release"
  /\ sem' = sem
  /\ wg' = wg - 1
  /\ tasks' = [tasks EXCEPT ![t] = [IdleTask EXCEPT !.pc = "done"]]
  /\ UNCHANGED <<pv, extraVars,
                 sumFailed, mainVars, file, errorsChan, faults, attempts,
                 discFailed, vidFailed, everMarked, everProcessed, videoHist,
                 secondDone>>

\* Lines 68-72: the deferred calls run when the goroutine's function
\* returns: the semaphore slot is given back, then wg.Done.
Exit(t) ==
  /\ tasks[t].pc = "release"
  /\ sem' = sem - 1
  /\ wg' = wg - 1
  /\ tasks' = [tasks EXCEPT ![t] = [IdleTask EXCEPT !.pc = "done"]]
  /\ UNCHANGED <<pv, extraVars,
                 sumFailed, mainVars, file, errorsChan, faults, attempts,
                 discFailed, vidFailed, everMarked, everProcessed, videoHist,
                 secondDone>>

\* ------------------------------------------------------ runApp digest step
taskHist == <<tasks, syncVars, attempts, discFailed, vidFailed, videoHist,
              secondDone>>

\* Mutant: the channel-list error is logged and the digest step follows.
RunAppErrorContinuing ==
  /\ mainPc = "returned"
  /\ result = "error"
  /\ batch' = PendingSummaries(file)
  /\ mainPc' = IF Len(PendingSummaries(file)) > 0 THEN "send" ELSE "exit"
  /\ UNCHANGED <<pv, extraVars,
                 sumFailed, digestHist, channels, maxConcurrent, file,
                 result, errorCount, mainSnap, run, faults, listFailed,
                 fileAtStart, everMarked, everProcessed, markedPrior, taskHist>>

\* runApp lines 177-180: the channel-list error ends the run.
RunAppError ==
  /\ mainPc = "returned"
  /\ result = "error"
  /\ mainPc' = "exit"
  /\ UNCHANGED <<pv, extraVars,
                 sumFailed, digestHist, channels, maxConcurrent, file,
                 result, errorCount, batch, mainSnap, run, faults, listFailed,
                 fileAtStart, everMarked, everProcessed, markedPrior, taskHist>>

\* runApp line 183: no email service is configured.
EmailDisabled ==
  /\ mainPc = "returned"
  /\ result = "nil"
  /\ mainPc' = "exit"
  /\ UNCHANGED <<pv, extraVars,
                 sumFailed, digestHist, channels, maxConcurrent, file,
                 result, errorCount, batch, mainSnap, run, faults, listFailed,
                 fileAtStart, everMarked, everProcessed, markedPrior, taskHist>>

\* runApp lines 184-186: reading the pending summaries fails.
GetPendingFails ==
  /\ mainPc = "returned"
  /\ result = "nil"
  /\ faults < MaxFaults
  /\ faults' = faults + 1
  /\ mainPc' = "exit"
  /\ UNCHANGED <<pv, extraVars,
                 sumFailed, digestHist, channels, maxConcurrent, file,
                 result, errorCount, batch, mainSnap, run, listFailed,
                 fileAtStart, everMarked, everProcessed, markedPrior, taskHist>>

\* runApp lines 184-205: ProcessPendingSummariesForEmail returns the New
\* summaries; with none there is nothing to send.
GetPending ==
  /\ mainPc = "returned"
  /\ result = "nil"
  /\ batch' = PendingSummaries(file)
  /\ mainPc' = IF Len(PendingSummaries(file)) > 0 THEN "send" ELSE "exit"
  /\ UNCHANGED <<pv, extraVars,
                 sumFailed, digestHist, channels, maxConcurrent, file,
                 result, errorCount, mainSnap, run, faults, listFailed,
                 fileAtStart, everMarked, everProcessed, markedPrior, taskHist>>

\* Mutant: the loop of lines 193-196 leaves out the last summary.
BatchIdsWithoutLast == {batch[i].id : i \in 1..(Len(batch) - 1)}

\* The ids runApp lines 193-196 collect from the summaries it sent.
BatchIds == {batch[i].id : i \in DOMAIN batch}

\* Mutant: the summaries are marked although SendDigest failed.
SendDigestFailsMarking ==
  /\ mainPc = "send"
  /\ faults < MaxFaults
  /\ faults' = faults + 1
  /\ unsent' = unsent \cup {batch[i].id : i \in DOMAIN batch}
  /\ summaryIDs' = BatchIds
  /\ mainPc' = "msp_open"
  /\ UNCHANGED <<pv, extraVars,
                 sumFailed, channels, maxConcurrent, file, result,
                 errorCount, batch, mainSnap, run, listFailed, fileAtStart,
                 everMarked, everProcessed, markedPrior, taskHist, sentOk,
                 acked>>

\* runApp lines 189-190: SendDigest fails, the error is logged and
\* MarkSummariesProcessed is not called.
SendDigestFails ==
  /\ mainPc = "send"
  /\ faults < MaxFaults
  /\ faults' = faults + 1
  /\ unsent' = unsent \cup {batch[i].id : i \in DOMAIN batch}
  /\ mainPc' = "exit"
  /\ UNCHANGED <<pv, extraVars,
                 sumFailed, channels, maxConcurrent, file, result,
                 errorCount, batch, mainSnap, run, listFailed, fileAtStart,
                 everMarked, everProcessed, markedPrior, taskHist, summaryIDs,
                 sentOk, acked>>

\* runApp lines 189-197: SendDigest succeeds; the ids of the summaries it
\* was given are collected for MarkSummariesProcessed.
SendDigestOk ==
  /\ mainPc = "send"
  /\ sentOk' = sentOk \cup {batch[i].id : i \in DOMAIN batch}
  /\ unsent' = unsent \ {batch[i].id : i \in DOMAIN batch}
  /\ summaryIDs' = BatchIds
  /\ mainPc' = "msp_open"
  /\ UNCHANGED <<pv, extraVars,
                 sumFailed, channels, maxConcurrent, file, result,
                 errorCount, batch, mainSnap, run, faults, listFailed,
                 fileAtStart, everMarked, everProcessed, markedPrior,
                 taskHist, acked>>

\* MarkSummariesProcessed lines 259-262: OpenFile fails.
MSPOpenFails ==
  /\ mainPc = "msp_open"
  /\ faults < MaxFaults
  /\ faults' = faults + 1
  /\ mainPc' = "exit"
  /\ UNCHANGED <<pv, extraVars,
                 sumFailed, digestHist, channels, maxConcurrent, file,
                 result, errorCount, batch, mainSnap, run, listFailed,
                 fileAtStart, everMarked, everProcessed, markedPrior, taskHist>>

\* MarkSummariesProcessed line 259: OpenFile reads the whole workbook.
MSPOpenOk ==
  /\ mainPc = "msp_open"
  /\ mainSnap' = file
  /\ mainPc' = "msp_write"
  /\ UNCHANGED <<pv, extraVars,
                 sumFailed, digestHist, channels, maxConcurrent, file,
                 result, errorCount, batch, run, faults, listFailed,
                 fileAtStart, everMarked, everProcessed, markedPrior, taskHist>>

\* MarkSummariesProcessed lines 263-302: the status cells are set, the
\* deferred SaveAs replaces the workbook.
MSPWriteOk ==
  /\ mainPc = "msp_write"
  /\ WriteFile(WithProcessed(mainSnap, summaryIDs))
  /\ acked' = acked \cup summaryIDs
  /\ mainSnap' = EmptyFile
  /\ mainPc' = "exit"
  /\ UNCHANGED <<pv, extraVars,
                 sumFailed, channels, maxConcurrent, result, errorCount,
                 batch, run, faults, listFailed, fileAtStart, markedPrior,
                 taskHist, summaryIDs, sentOk, unsent>>

\* MarkSummariesProcessed lines 263-268, 302: the deferred SaveAs fails; the
\* error is only logged and nil is returned.
MSPWriteLost ==
  /\ mainPc = "msp_write"
  /\ faults < MaxFaults
  /\ faults' = faults + 1
  /\ acked' = acked \cup summaryIDs
  /\ mainSnap' = EmptyFile
  /\ mainPc' = "exit"
  /\ UNCHANGED <<pv, extraVars,
                 sumFailed, channels, maxConcurrent, file, result,
                 errorCount, batch, run, listFailed, fileAtStart, everMarked,
                 everProcessed, markedPrior, taskHist, summaryIDs, sentOk,
                 unsent>>

\* The program is started again on the same workbook.
NextRun ==
  /\ mainPc = "exit"
  /\ run < MaxRuns
  /\ run' = run + 1
  /\ mainPc' = "idle"
  /\ tasks' = [t \in Rows |-> IdleTask]
  /\ sem' = 0
  /\ wg' = 0
  /\ errorsChan' = <<>>
  /\ result' = "none"
  /\ errorCount' = 0
  /\ batch' = <<>>
  /\ summaryIDs' = {}
  /\ listFailed' = FALSE
  /\ attempts' = [t \in Rows |-> 0]
  /\ discFailed' = {}
  /\ vidFailed' = {}
  /\ fileAtStart' = file
  /\ markedPrior' = everMarked
  /\ UNCHANGED <<pv, extraVars,
                 sumFailed, channels, maxConcurrent, file, mainSnap,
                 faults, everMarked, everProcessed, videoHist, secondDone,
                 sentOk, acked, unsent>>

\* ------------------------------------------------------------------ Next
TaskStep(t) ==
  \/ Acquire(t)
  \/ DiscoverFails(t)
  \/ DiscoverOk(t)
  \/ CheckFails(t)
  \/ CheckDone(t)
  \/ SummarizeFails(t)
  \/ SummarizeOk(t)
  \/ SaveOpenFails(t)
  \/ SaveOpenOk(t)
  \/ SaveWriteOk(t)
  \/ SaveWriteLost(t)
  \/ MarkCheckFails(t)
  \/ MarkCheckDone(t)
  \/ MarkOpenFails(t)
  \/ MarkOpenOk(t)
  \/ MarkWriteOk(t)
  \/ MarkWriteLost(t)
  \/ SendErr(t)
  \/ Exit(t)

MainStep ==
  \/ GetChannelsFails
  \/ NoChannels
  \/ SpawnTasks
  \/ Join
  \/ RunAppError
  \/ EmailDisabled
  \/ GetPendingFails
  \/ GetPending
  \/ SendDigestFails
  \/ SendDigestOk
  \/ MSPOpenFails
  \/ MSPOpenOk
  \/ MSPWriteOk
  \/ MSPWriteLost
  \/ NextRun

Next == MainStep \/ \E t \in Rows : TaskStep(t)

Spec == Init /\ [][Next]_vars

SpecSeq == InitSeq /\ [][Next]_vars

\* ------------------------------------------- processVideo with its texts
\* Lines 174-175: the Transcript API returns a transcript.
PVAcquireOk ==
  /\ pv.pc = "start"
  /\ \E text \in RealTranscripts :
       pv' = [pv EXCEPT !.pc = "truncate", !.raw = text, !.transcript = text,
                        !.dataTranscript = text,
                        !.dataThumbnail = StandardThumbnail(TextVideoID),
                        !.thumbnailURL = StandardThumbnail(TextVideoID)]
  /\ UNCHANGED <<pipelineVars, extraVars>>

\* Lines 174-184: the Transcript API fails, the fallback text and the
\* fallback thumbnail are used.
PVAcquireFails ==
  /\ pv.pc = "start"
  /\ pv' = [pv EXCEPT !.pc = "truncate", !.acqFailed = TRUE,
                       !.raw = FallbackTranscript(pv.video),
                       !.transcript = FallbackTranscript(pv.video),
                       !.thumbnailURL = MaxResThumbnail(TextVideoID)]
  /\ UNCHANGED <<pipelineVars, extraVars>>

\* Lines 187-190.
PVTruncate ==
  /\ pv.pc = "truncate"
  /\ pv' = [pv EXCEPT !.pc = "summarize",
                       !.transcript = Truncated(pv.transcript, pv.mtl)]
  /\ UNCHANGED <<pipelineVars, extraVars>>

\* Lines 193-196: Summarize is called with the transcript and fails.
PVSummarizeFails ==
  /\ pv.pc = "summarize"
  /\ pv' = [pv EXCEPT !.pc = "returned", !.calls = @ + 1,
                       !.handed = pv.transcript, !.result = "error",
                       !.failed = @ \cup {"summarizer"}]
  /\ UNCHANGED <<pipelineVars, extraVars>>

\* Lines 193-212: Summarize is called with the transcript and succeeds.
PVSummarizeOk ==
  /\ pv.pc = "summarize"
  /\ pv' = [pv EXCEPT !.pc = "save", !.calls = @ + 1,
                       !.handed = pv.transcript]
  /\ UNCHANGED <<pipelineVars, extraVars>>

\* Lines 215-217: SaveSummary returns an error (OpenFile failed).
PVSaveFails ==
  /\ pv.pc = "save"
  /\ pv' = [pv EXCEPT !.pc = "returned", !.result = "error",
                       !.failed = @ \cup {"ledger"}]
  /\ UNCHANGED <<pipelineVars, extraVars>>

\* Line 215 with SaveSummary lines 144-148: the deferred SaveAs fails and
\* nil is returned.
PVSaveLost ==
  /\ pv.pc = "save"
  /\ pv' = [pv EXCEPT !.pc = "mark", !.failed = @ \cup {"ledger"}]
  /\ UNCHANGED <<pipelineVars, extraVars>>

\* Line 215: the summary is saved.
PVSaveOk ==
  /\ pv.pc = "save"
  /\ pv' = [pv EXCEPT !.pc = "mark", !.saved = TRUE]
  /\ UNCHANGED <<pipelineVars, extraVars>>

\* Lines 220-222: MarkVideoProcessed returns an error.
PVMarkFails ==
  /\ pv.pc = "mark"
  /\ pv' = [pv EXCEPT !.pc = "returned", !.result = "error",
                       !.failed = @ \cup {"ledger"}]
  /\ UNCHANGED <<pipelineVars, extraVars>>

\* Line 220 with MarkVideoProcessed lines 347-352: the deferred SaveAs fails
\* and nil is returned.
PVMarkLost ==
  /\ pv.pc = "mark"
  /\ pv' = [pv EXCEPT !.pc = "returned", !.result = "nil",
                       !.failed = @ \cup {"ledger"}]
  /\ UNCHANGED <<pipelineVars, extraVars>>

\* Lines 220-229: the video is marked, processVideo returns nil.
PVMarkOk ==
  /\ pv.pc = "mark"
  /\ pv' = [pv EXCEPT !.pc = "returned", !.result = "nil", !.marked = TRUE]
  /\ UNCHANGED <<pipelineVars, extraVars>>

NextText ==
  \/ PVAcquireOk
  \/ PVAcquireFails
  \/ PVTruncate
  \/ PVSummarizeFails
  \/ PVSummarizeOk
  \/ PVSaveFails
  \/ PVSaveLost
  \/ PVSaveOk
  \/ PVMarkFails
  \/ PVMarkLost
  \/ PVMarkOk

SpecText == InitText /\ [][NextText]_vars

\* --------------------------------------------- the end-to-end scenario
\* The workbook a previous run left behind: the summary of video vid, New or
\* already sent, and its processed-mark.
LedgerWith(vid, status) ==
  [summaries |-> <<[id |-> generateSummaryID(0, 1, 1), vid |-> vid,
                    status |-> status]>>,
   processed |-> <<vid>>]

\* What the Discoverer answers in the scenario: two videos, newest first,
\* for the first channel and none for the second.
ScenarioVideos(c) == IF c = ChannelIdOf(1) THEN <<3, 1>> ELSE <<>>

\* Two channel rows; one of the first channel's two videos was processed by
\* an earlier run.
InitScenario ==
  /\ channels = <<ChannelIdOf(1), ChannelIdOf(2)>>
  /\ \E k \in 1..MaxConcurrentVideos : maxConcurrent = k
  /\ \E vid \in {1, 3}, status \in {"New", "Processed"} :
       /\ file = LedgerWith(vid, status)
       /\ fileAtStart = LedgerWith(vid, status)
       /\ everMarked = {vid}
       /\ markedPrior = {vid}
       /\ everProcessed = IF status = "Processed"
                            THEN {generateSummaryID(0, 1, 1)} ELSE {}
  /\ mainPc = "idle"
  /\ tasks = [t \in Rows |-> IdleTask]
  /\ sem = 0
  /\ wg = 0
  /\ errorsChan = <<>>
  /\ result = "none"
  /\ errorCount = 0
  /\ batch = <<>>
  /\ mainSnap = EmptyFile
  /\ run = 1
  /\ faults = 0
  /\ listFailed = FALSE
  /\ attempts = [t \in Rows |-> 0]
  /\ discFailed = {}
  /\ vidFailed = {}
  /\ written = {}
  /\ markWritten = {}
  /\ okVideos = {}
  /\ secondDone = {}
  /\ summaryIDs = {}
  /\ sentOk = {}
  /\ acked = {}
  /\ unsent = {}
  /\ sumFailed = {}
  /\ cancelled = FALSE
  /\ api = IdleApi
  /\ pv = IdleCall
  /\ rt = IdleRow

\* Lines 108-117 with the scenario's Discoverer.
DiscoverScenario(t) ==
  /\ tasks[t].pc = "discover"
  /\ attempts' = [attempts EXCEPT ![t] = @ + 1]
  /\ tasks' = [tasks EXCEPT ![t] =
                 Continue([tasks[t] EXCEPT !.videos = ScenarioVideos(channels[t]),
                                           !.vi = 0])]
  /\ UNCHANGED <<pv, extraVars, sumFailed, mainVars, syncVars, file, faults,
                 discFailed, vidFailed, everMarked, everProcessed, videoHist,
                 secondDone>>

ScenarioStep(t) ==
  \/ Acquire(t)
  \/ DiscoverFails(t)
  \/ DiscoverScenario(t)
  \/ CheckFails(t)
  \/ CheckDone(t)
  \/ SummarizeFails(t)
  \/ SummarizeOk(t)
  \/ SaveOpenFails(t)
  \/ SaveOpenOk(t)
  \/ SaveWriteOk(t)
  \/ SaveWriteLost(t)
  \/ MarkCheckFails(t)
  \/ MarkCheckDone(t)
  \/ MarkOpenFails(t)
  \/ MarkOpenOk(t)
  \/ MarkWriteOk(t)
  \/ MarkWriteLost(t)
  \/ SendErr(t)
  \/ Exit(t)

\* One call of ProcessNewVideos, up to its return.
NextScenario ==
  \/ GetChannelsFails
  \/ SpawnTasks
  \/ Join
  \/ \E t \in Rows : ScenarioStep(t)

SpecScenario == InitScenario /\ [][NextScenario]_vars

\* ------------------------------------------- the read-only accessors
\* what the accessors leave alone besides the workbook
apiFrame == <<channels, maxConcurrent, mainPc, tasks, sem, wg, errorsChan,
              result, errorCount, batch, mainSnap, run, listFailed, attempts,
              discFailed, vidFailed, fileAtStart, markedPrior, written,
              markWritten, okVideos, secondDone, summaryIDs, sentOk, acked,
              unsent, sumFailed, pv, cancelled, rt>>

\* Mutant: every row of the Summaries sheet is counted.
PendingCountAll(f) == Len(f.summaries)

\* GetSummaryStats line 265: len(pendingSummaries).
PendingCount(f) == Len(PendingSummaries(f))

\* Mutant: the summaries handed out are marked Processed by the call.
ApiPendingOkMarking ==
  /\ api.calls < MaxApiCalls
  /\ api' = [calls |-> api.calls + 1, op |-> "pending", err |-> FALSE,
             summaries |-> PendingSummaries(file), pending |-> 0]
  /\ WriteFile(WithProcessed(file, {r.id : r \in Range(PendingSummaries(file))}))
  /\ UNCHANGED <<apiFrame, faults>>

\* ProcessPendingSummariesForEmail lines 273-281, called at any moment:
\* GetPendingSummaries opens the workbook, reads the rows and closes it.
ApiPendingOk ==
  /\ api.calls < MaxApiCalls
  /\ api' = [calls |-> api.calls + 1, op |-> "pending", err |-> FALSE,
             summaries |-> PendingSummaries(file), pending |-> 0]
  /\ UNCHANGED <<apiFrame, faults, file, everMarked, everProcessed>>

\* Lines 274-277: GetPendingSummaries fails, nil and the error are returned.
ApiPendingFails ==
  /\ api.calls < MaxApiCalls
  /\ faults < MaxFaults
  /\ faults' = faults + 1
  /\ api' = [calls |-> api.calls + 1, op |-> "pending", err |-> TRUE,
             summaries |-> <<>>, pending |-> 0]
  /\ UNCHANGED <<apiFrame, file, everMarked, everProcessed>>

\* GetSummaryStats lines 258-269, called at any moment.
ApiStatsOk ==
  /\ api.calls < MaxApiCalls
  /\ api' = [calls |-> api.calls + 1, op |-> "stats", err |-> FALSE,
             summaries |-> <<>>, pending |-> PendingCount(file)]
  /\ UNCHANGED <<apiFrame, faults, file, everMarked, everProcessed>>

\* Lines 259-262: GetPendingSummaries fails, nil and the error are returned.
ApiStatsFails ==
  /\ api.calls < MaxApiCalls
  /\ faults < MaxFaults
  /\ faults' = faults + 1
  /\ api' = [calls |-> api.calls + 1, op |-> "stats", err |-> TRUE,
             summaries |-> <<>>, pending |-> 0]
  /\ UNCHANGED <<apiFrame, file, everMarked, everProcessed>>

\* runApp with a caller of the accessors beside it.
NextApi ==
  \/ ApiPendingOk
  \/ ApiPendingFails
  \/ ApiStatsOk
  \/ ApiStatsFails
  \/ Next

SpecApi == InitSeq /\ [][NextApi]_vars

\* ------------------------------------ processVideo with its transcript client
\* One call of processVideo with the transcript client initializeApp chose:
\* TranscriptClient when RAPID_API_KEY is set, MockTranscriptClient when not.
InitAcquire ==
  /\ InitWith(<<>>, 1)
  /\ \E video \in Videos, client \in {"rapidapi", "mock"} :
       pv = [IdleCall EXCEPT !.pc = "start", !.video = video,
                             !.mtl = MaxTranscriptLength, !.client = client]
  /\ rt = IdleRow

\* GetTranscriptWithThumbnail lines 83-92: the RapidAPI request returns a
\* transcript, which is never empty (lines 160-162).
PVRapidOk ==
  /\ pv.pc = "start"
  /\ pv.client = "rapidapi"
  /\ \E text \in RealTranscripts \ {""},
        thumb \in {StandardThumbnail(TextVideoID),
                   ApiThumbnail(TextVideoID)} :
       pv' = [pv EXCEPT !.pc = "truncate", !.raw = text, !.transcript = text,
                        !.dataTranscript = text, !.dataThumbnail = thumb,
                        !.thumbnailURL = thumb]
  /\ UNCHANGED <<pipelineVars, extraVars>>

\* Lines 83-89: the RapidAPI request fails, the alternative client is tried.
PVRapidFails ==
  /\ pv.pc = "start"
  /\ pv.client = "rapidapi"
  /\ pv' = [pv EXCEPT !.pc = "alternative", !.rapidFailed = TRUE]
  /\ UNCHANGED <<pipelineVars, extraVars>>

\* Mutant: the fallback keeps the empty thumbnail URL that came with the
\* error.
PVAlternativeFailsNoThumbnail ==
  /\ pv.pc = "alternative"
  /\ pv' = [pv EXCEPT !.pc = "truncate", !.acqFailed = TRUE,
                       !.raw = FallbackTranscript(pv.video),
                       !.transcript = FallbackTranscript(pv.video)]
  /\ UNCHANGED <<pipelineVars, extraVars>>

\* getAlternativeTranscriptWithThumbnail lines 195-204 returns its "not
\* available" error, GetTranscriptWithThumbnail returns it, and processVideo
\* (lines 175-184) uses the fallback text and the fallback thumbnail.
PVAlternativeFails ==
  /\ pv.pc = "alternative"
  /\ pv' = [pv EXCEPT !.pc = "truncate", !.acqFailed = TRUE,
                       !.raw = FallbackTranscript(pv.video),
                       !.transcript = FallbackTranscript(pv.video),
                       !.thumbnailURL = MaxResThumbnail(TextVideoID)]
  /\ UNCHANGED <<pipelineVars, extraVars>>

\* MockTranscriptClient.GetTranscriptWithThumbnail lines 233-250: always the
\* mock text.
PVMockOk ==
  /\ pv.pc = "start"
  /\ pv.client = "mock"
  /\ pv' = [pv EXCEPT !.pc = "truncate",
                       !.raw = MockTranscript(TextVideoID),
                       !.transcript = MockTranscript(TextVideoID),
                       !.dataTranscript = MockTranscript(TextVideoID),
                       !.dataThumbnail = MaxResThumbnail(TextVideoID),
                       !.thumbnailURL = MaxResThumbnail(TextVideoID)]
  /\ UNCHANGED <<pipelineVars, extraVars>>

NextAcquire ==
  \/ PVRapidOk
  \/ PVRapidFails
  \/ PVAlternativeFails
  \/ PVMockOk
  \/ PVTruncate
  \/ PVSummarizeFails
  \/ PVSummarizeOk
  \/ PVSaveFails
  \/ PVSaveLost
  \/ PVSaveOk
  \/ PVMarkFails
  \/ PVMarkLost
  \/ PVMarkOk

SpecAcquire == InitAcquire /\ [][NextAcquire]_vars

\* ------------------------------------ processVideo with its timeout
\* One call of processVideo with the largest transcript limit; the deadline
\* of videoCtx (line 170) can pass while the call runs.
InitCtx ==
  /\ InitWith(<<>>, 1)
  /\ \E video \in Videos :
       pv = [IdleCall EXCEPT !.pc = "start", !.video = video,
                             !.mtl = MaxTranscriptLength]
  /\ rt = IdleRow

\* Lines 170-171: config.Processing.TranscriptTimeout passes before
\* processVideo returns, videoCtx is done. The transcript request is built
\* without a context (transcript.go lines 103-114) and Summarize is given
\* ctx, not videoCtx (line 193), so no step of the call depends on it.
PVTimeoutExpires ==
  /\ pv.pc \in {"start", "truncate", "summarize", "save", "mark"}
  /\ ~pv.videoCtxDone
  /\ pv' = [pv EXCEPT !.videoCtxDone = TRUE]
  /\ UNCHANGED <<pipelineVars, extraVars>>

NextCtx ==
  \/ PVTimeoutExpires
  \/ NextText

SpecCtx == InitCtx /\ [][NextCtx]_vars

\* ------------------------------- ProcessNewVideos with a ctx that ends
\* The caller's ctx is cancelled while ProcessNewVideos waits for its
\* goroutines.
Cancel ==
  /\ mainPc = "wait"
  /\ ~cancelled
  /\ cancelled' = TRUE
  /\ UNCHANGED <<pv, api, rt, pipelineVars>>

\* Lines 108-111 with a done ctx: the goroutine calls GetChannelVideos all
\* the same, the request is refused by the HTTP client and processChannel
\* returns the error.
DiscoverCancelled(t) ==
  /\ tasks[t].pc = "discover"
  /\ cancelled
  /\ attempts' = [attempts EXCEPT ![t] = @ + 1]
  /\ discFailed' = discFailed \cup {t}
  /\ tasks' = [tasks EXCEPT ![t].pc = "send_err"]
  /\ UNCHANGED <<pv, extraVars, sumFailed, mainVars, syncVars, file, faults,
                 vidFailed, everMarked, everProcessed, videoHist, secondDone>>

\* Lines 166-196 with a done ctx: the transcript request does not carry the
\* context (transcript.go lines 103-114) and is made as usual; Summarize is
\* refused by the HTTP client, processVideo returns the error and the loop
\* goes on.
SummarizeCancelled(t) ==
  /\ tasks[t].pc = "summarize"
  /\ cancelled
  /\ sumFailed' = sumFailed \cup {CurVideo(tasks[t])}
  /\ FinishVideo(t, TRUE, FALSE)
  /\ UNCHANGED <<pv, extraVars, mainVars, syncVars, file, faults, attempts,
                 discFailed, everMarked, everProcessed, written, markWritten>>

\* One call of ProcessNewVideos, up to its return.
NextCancel ==
  \/ Cancel
  \/ GetChannelsFails
  \/ NoChannels
  \/ SpawnTasks
  \/ Join
  \/ \E t \in Rows : TaskStep(t)
  \/ \E t \in Rows : DiscoverCancelled(t)
  \/ \E t \in Rows : SummarizeCancelled(t)

SpecCancel == Init /\ [][NextCancel]_vars

\* ------------------------------------- ProcessNewVideos, one call, scheduled
\* One call of ProcessNewVideos up to its return.
NextOnce ==
  \/ GetChannelsFails
  \/ NoChannels
  \/ SpawnTasks
  \/ Join
  \/ \E t \in Rows : TaskStep(t)

\* The Go scheduler runs every goroutine that can take a step, and every
\* collaborator call returns (with a result or an error): the main goroutine
\* and each channel goroutine take their next step when one stays possible.
SpecLive ==
  /\ Init
  /\ [][NextOnce]_vars
  /\ WF_vars(GetChannelsFails \/ NoChannels \/ SpawnTasks \/ Join)
  /\ \A t \in Rows : WF_vars(TaskStep(t))

\* ------------------------------------- one channel on two rows of the sheet
\* GetChannels (excel.go lines 117-132) returns one channel per row and
\* compares no ids: here the Channels sheet names the first channel on each
\* of its rows, and ProcessNewVideos runs once.
InitTwice ==
  /\ \E k \in 1..MaxConcurrentVideos :
       InitWith([i \in 1..NumChannels |-> ChannelIdOf(1)], k)
  /\ pv = IdleCall
  /\ rt = IdleRow

NextTwice ==
  \/ GetChannelsFails
  \/ SpawnTasks
  \/ Join
  \/ \E t \in Rows : TaskStep(t)

SpecTwice == InitTwice /\ [][NextTwice]_vars

\* ------------------------------ one record to the Summaries sheet and back
\* One SaveSummary call on a workbook whose Summaries sheet has only its
\* header, followed by one GetPendingSummaries call.
InitRow ==
  /\ InitWith(<<>>, 1)
  /\ pv = IdleCall
  /\ \E summary \in SummaryRecords :
       rt = [IdleRow EXCEPT !.pc = "save", !.record = summary]

\* SaveSummary lines 140-143: OpenFile fails.
RowSaveFails ==
  /\ rt.pc = "save"
  /\ rt' = [rt EXCEPT !.pc = "done", !.result = "error"]
  /\ UNCHANGED <<pv, cancelled, api, pipelineVars>>

\* SaveSummary lines 151-180: the record's cells go to row len(rows)+1 and
\* the deferred SaveAs writes the workbook.
RowSaveOk ==
  /\ rt.pc = "save"
  /\ rt' = [rt EXCEPT !.pc = "read",
                       !.rows = Append(@, SummaryCells(FromSummary(rt.record)))]
  /\ UNCHANGED <<pv, cancelled, api, pipelineVars>>

\* GetPendingSummaries lines 185-194: OpenFile or GetRows fails.
RowReadFails ==
  /\ rt.pc = "read"
  /\ rt' = [rt EXCEPT !.pc = "done", !.result = "error"]
  /\ UNCHANGED <<pv, cancelled, api, pipelineVars>>

\* GetPendingSummaries lines 185-250: GetRows returns the rows without
\* their trailing empty cells, the New ones are converted and returned.
RowReadOk ==
  /\ rt.pc = "read"
  /\ rt' = [rt EXCEPT !.pc = "done", !.result = "nil",
                       !.read = ReadPending([i \in DOMAIN rt.rows |->
                                               TrimRow(rt.rows[i])])]
  /\ UNCHANGED <<pv, cancelled, api, pipelineVars>>

NextRow ==
  \/ RowSaveFails
  \/ RowSaveOk
  \/ RowReadFails
  \/ RowReadOk

SpecRow == InitRow /\ [][NextRow]_vars

\* ================================================================ claims
\* The goroutine holds a semaphore slot: it is between line 71 and the
\* deferred release of line 72.
InChannel(t) ==
  tasks[t].pc \in {"discover", "check", "summarize", "save_open", "save_write",
                   "mark_check", "mark_open", "mark_write", "send_err",
                   "release"}

\* The goroutine is inside processVideo.
InProcessVideo(t) ==
  tasks[t].pc \in {"summarize", "save_open", "save_write", "mark_check",
                   "mark_open", "mark_write"}

Active == {t \in Rows : InChannel(t)}

\* ProcessNewVideos has returned to runApp.
PostReturn == mainPc \in {"returned", "send", "msp_open", "msp_write", "exit"}

AllDone == \A t \in Rows : tasks[t].pc \in {"none", "done"}

\* C1: with limit K, at most K channel goroutines are inside processChannel
\* (holding a gate slot) at any time; every other started goroutine is either
\* still blocked on the gate or finished.
Thm_C1 ==
  /\ Cardinality(Active) <= maxConcurrent
  /\ \A t \in Rows : tasks[t].pc \in {"none", "acquire", "done"} \/ InChannel(t)

\* C1 witness: more channels than slots, every slot taken, one goroutine
\* blocked on the gate.
Wit_C1 ==
  /\ Len(channels) > maxConcurrent
  /\ Cardinality(Active) = maxConcurrent
  /\ \E t \in Rows : tasks[t].pc = "acquire"
  /\ \E t \in Rows : tasks[t].pc = "save_write"

\* C2: a video id that the ProcessedVideos sheet held before the current run
\* started is not processed in this run: no goroutine is inside processVideo
\* (transcript, summarizer, SaveSummary, MarkVideoProcessed) for it.
Cex_C2 ==
  \A t \in Rows : InProcessVideo(t) => CurVideo(tasks[t]) \notin markedPrior

\* C3: the Summaries sheet never holds two records for the same video id,
\* also across runs in which MarkVideoProcessed fails after SaveSummary.
Cex_C3 == \A v \in 1..NumVideos : SummaryCount(file, v) <= 1

\* C4: when a video is handled a second time, after processVideo returned
\* nil for it, the ledger holds exactly one Summary record and exactly one
\* processed-mark for it once the second handling ends.
Cex_C4 ==
  \A v \in secondDone : SummaryCount(file, v) = 1 /\ MarkCount(file, v) = 1

\* C5: once every concurrent SaveSummary and MarkVideoProcessed call has
\* returned and none has failed, the workbook holds every summary and every
\* processed-mark whose write reached the file: none is overwritten by a
\* concurrent writer.
Cex_C5 ==
  (AllDone /\ faults = 0) => /\ written \subseteq SummaryIds(file)
                             /\ markWritten \subseteq Range(file.processed)

\* C6: once the channel list was read, ProcessNewVideos returns nil with
\* every channel row attempted exactly once, whatever failed on the way.
Thm_C6 ==
  (PostReturn /\ ~listFailed) =>
     /\ result = "nil"
     /\ \A t \in Rows : attempts[t] = IF t <= Len(channels) THEN 1 ELSE 0

\* C6 witness: the call has returned after one channel's discovery failed
\* while the other channel was processed and its summary persisted.
Wit_C6 ==
  /\ mainPc = "returned"
  /\ discFailed # {}
  /\ \E t \in Rows \ discFailed : attempts[t] = 1
  /\ written # {}

\* C7: ProcessNewVideos returns an error exactly when GetChannels failed, and
\* then no goroutine was started, no channel was attempted and the workbook
\* is as it was when the run started.
Thm_C7 ==
  PostReturn =>
     /\ (result = "error") <=> listFailed
     /\ result = "error" =>
          /\ \A t \in Rows : tasks[t].pc = "none" /\ attempts[t] = 0
          /\ file = fileAtStart

\* C7 witness: a later run fails to read the channel list of a workbook that
\* an earlier run has filled.
Wit_C7 ==
  /\ mainPc = "returned"
  /\ result = "error"
  /\ Len(channels) > 0
  /\ file # EmptyFile

Thm_C9 == PostReturn => AllDone

\* C9 witness: the call has returned after both goroutines did ledger writes.
Wit_C9 ==
  /\ mainPc = "returned"
  /\ Len(channels) = 2
  /\ \A t \in 1..2 : tasks[t].pc = "done"
  /\ Cardinality(written) = 2

StatusOf(f, id) ==
  {f.summaries[i].status : i \in {j \in DOMAIN f.summaries : f.summaries[j].id = id}}

\* C10: a summary that stays on the sheet in a step keeps its status or moves
\* from New to Processed, the latter only in the write of
\* MarkSummariesProcessed; a summary that appears on the sheet is New; and a
\* summary that has once been Processed is never New again.
Thm_C10 ==
  /\ [](\A id \in everProcessed : "New" \notin StatusOf(file, id))
  /\ [][\A id \in SummaryIds(file') :
          IF id \in SummaryIds(file)
            THEN \/ StatusOf(file', id) = StatusOf(file, id)
                 \/ /\ StatusOf(file, id) = {"New"}
                    /\ StatusOf(file', id) = {"Processed"}
                    /\ mainPc = "msp_write"
            ELSE StatusOf(file', id) = {"New"}
       ]_vars

\* C10 witness: a summary of an earlier run is Processed while a summary of
\* the current run has been saved as New.
Wit_C10 ==
  /\ run = 2
  /\ \E i, j \in DOMAIN file.summaries :
       /\ file.summaries[i].status = "Processed"
       /\ file.summaries[j].status = "New"
       /\ file.summaries[j].id[1] = 2

\* The ids of the summaries ProcessPendingSummariesForEmail returned.
BatchSummaryIds == {batch[i].id : i \in DOMAIN batch}

\* C11: what GetPendingSummaries returns holds no summary with status
\* Processed and no summary whose id was given to a MarkSummariesProcessed
\* call that has returned nil.
Cex_C11 ==
  mainPc = "send" =>
     /\ \A i \in DOMAIN batch : batch[i].status # "Processed"
     /\ BatchSummaryIds \cap acked = {}

\* C12: a failed SendDigest ends the digest step of the run without a call
\* of MarkSummariesProcessed and without a change of the workbook; the
\* summaries of the failed digest stay New, and the next result of
\* ProcessPendingSummariesForEmail holds them again.
Thm_C12 ==
  /\ [](\A id \in unsent : StatusOf(file, id) = {"New"})
  /\ [](mainPc = "send" => unsent \subseteq BatchSummaryIds)
  /\ [][(mainPc = "send" /\ faults' # faults) =>
          /\ mainPc' = "exit"
          /\ file' = file
          /\ BatchSummaryIds \subseteq unsent'
       ]_vars

\* C12 witness: the digest of run 1 failed; run 2 has saved a further summary
\* and its pending list holds the summaries of the failed digest and the new
\* one.
Wit_C12 ==
  /\ run = 2
  /\ mainPc = "send"
  /\ unsent # {}
  /\ unsent \subseteq BatchSummaryIds
  /\ \E id \in BatchSummaryIds : id[1] = 2

\* C13: every summary whose status has ever been Processed was in a digest
\* that SendDigest reported as sent, and the ids MarkSummariesProcessed is
\* called with are exactly the ids of the summaries of that digest.
Thm_C13 ==
  /\ everProcessed \subseteq sentOk
  /\ mainPc \in {"msp_open", "msp_write"} =>
       /\ summaryIDs = BatchSummaryIds
       /\ summaryIDs \subseteq sentOk

\* C13 witness: a digest of two summaries was sent and both are Processed,
\* while a summary saved by the next run is still New and was never sent.
Wit_C13 ==
  /\ Cardinality(everProcessed) = 2
  /\ \E i \in DOMAIN file.summaries :
       /\ file.summaries[i].status = "New"
       /\ file.summaries[i].id \notin sentOk

\* C14: a summary that is on the sheet with status New is not dropped: in
\* every step it stays on the sheet (New until a digest with it was sent).
Cex_C14 ==
  [][\A id \in SummaryIds(file) :
        "New" \in StatusOf(file, id) => id \in SummaryIds(file')]_vars

\* The Summarizer has been called in the processVideo call of SpecText.
Summarized == pv.calls = 1

Cex_C16 ==
  (pv.acqFailed /\ pv.pc # "start" /\ Len(pv.video.description) = 10) =>
     pv.raw = GenericFallback(pv.video)

\* C16 (amended): with a description of 10 bytes the fallback transcript is
\* the templated sentence when the title has at most 5 bytes, and the
\* labelled title and description when the title has 6 bytes or more (the
\* labels take 34 of the 50 bytes); the Summarizer gets that text as lines
\* 187-190 cut it.
Thm_C16 ==
  (pv.acqFailed /\ pv.pc # "start" /\ Len(pv.video.description) = 10) =>
     /\ Len(pv.video.title) <= 5 => pv.raw = GenericFallback(pv.video)
     /\ Len(pv.video.title) >= 6 =>
          /\ pv.raw = LabelledFallback(pv.video)
          /\ pv.raw # GenericFallback(pv.video)
     /\ Summarized => pv.handed = Truncated(pv.raw, pv.mtl)

\* C16 witness: description of 10 bytes, title of 6 bytes: the Summarizer
\* has been given the labelled text of exactly 50 bytes.
Wit_C16 ==
  /\ pv.acqFailed
  /\ Summarized
  /\ Len(pv.video.description) = 10
  /\ Len(pv.video.title) = 6
  /\ Len(pv.handed) = MinFallbackLength
  /\ pv.handed = LabelledFallback(pv.video)

\* C17: the text Summarize is called with is the transcript (real or
\* fallback) itself when it has at most MaxTranscriptLength bytes; otherwise
\* it has MaxTranscriptLength + Len(marker) bytes, starts with the first
\* MaxTranscriptLength bytes of the transcript and ends with the marker.
Thm_C17 ==
  Summarized =>
     IF Len(pv.raw) > pv.mtl
       THEN /\ Len(pv.handed) = pv.mtl + Len(TruncationMarker)
            /\ SubSeq(pv.handed, 1, pv.mtl) = SubSeq(pv.raw, 1, pv.mtl)
            /\ SubSeq(pv.handed, pv.mtl + 1, Len(pv.handed)) = TruncationMarker
       ELSE pv.handed = pv.raw

\* C17 witness: a real transcript one byte longer than the maximum length
\* has been handed to the Summarizer, cut and marked.
Wit_C17 ==
  /\ ~pv.acqFailed
  /\ Summarized
  /\ pv.mtl = 3
  /\ Len(pv.raw) = 4
  /\ pv.handed = "qqq... [truncated]"

\* C18: the step in which Summarize fails for a video leaves the workbook
\* and every other goroutine as they are, saves no summary and writes no
\* mark; processVideo has returned an error for that video and the loop of
\* its channel moves on. In the run of the failure the workbook gets neither
\* a Summary nor a processed-mark for the video.
Thm_C18 ==
  /\ [](\A v \in sumFailed :
          run = 1 => SummaryCount(file, v) = 0 /\ v \notin everMarked)
  /\ [][\A t \in Rows :
          (tasks[t].pc = "summarize" /\ tasks'[t] # tasks[t]
             /\ faults' # faults) =>
             /\ file' = file
             /\ written' = written /\ markWritten' = markWritten
             /\ okVideos' = okVideos
             /\ t \in vidFailed'
             /\ CurVideo(tasks[t]) \in sumFailed'
             /\ tasks'[t].pc \in {"check", "release"}
             /\ \A u \in Rows \ {t} : tasks'[u] = tasks[u]
             /\ errorsChan' = errorsChan
       ]_vars

\* C18 witness: Summarize failed for the first video of a channel, nothing
\* of that video is in the workbook, and the same goroutine has saved the
\* summary of its next video.
Wit_C18 ==
  /\ run = 1
  /\ \E t \in Rows :
       /\ tasks[t].pc = "mark_write"
       /\ tasks[t].vi = 2
       /\ tasks[t].videos[1] \in sumFailed
       /\ SummaryCount(file, tasks[t].videos[1]) = 0
       /\ SummaryCount(file, tasks[t].videos[2]) = 1

\* C19: every video id on the ProcessedVideos sheet has a Summary record on
\* the Summaries sheet, also when writing the workbook failed.
Cex_C19 ==
  \A v \in Range(file.processed) : SummaryCount(file, v) >= 1

\* C20: when processVideo returns in a step in which a call failed, the loop
\* of that channel moves to the next video of the same list (or ends after
\* the last one); the loop index of a goroutine never moves back, so no
\* video of the list is handled twice in the run.
Thm_C20 ==
  [][\A t \in Rows :
       /\ (InProcessVideo(t) /\ ~InProcessVideo(t)' /\ faults' # faults) =>
            /\ tasks'[t].videos = tasks[t].videos
            /\ tasks'[t].vi = tasks[t].vi + 1
            /\ tasks'[t].pc = IF tasks[t].vi < Len(tasks[t].videos)
                                THEN "check" ELSE "release"
       /\ (tasks[t].vi >= 1 /\ tasks'[t].vi >= 1) =>
            /\ tasks'[t].videos = tasks[t].videos
            /\ tasks'[t].vi >= tasks[t].vi
    ]_vars

\* C20 witness: SaveSummary or MarkVideoProcessed failed for the first video
\* of a channel and the same goroutine is saving the summary of the second.
Wit_C20 ==
  /\ sumFailed = {}
  /\ \E t \in vidFailed :
       /\ tasks[t].pc = "save_write"
       /\ tasks[t].vi = 2
       /\ ~IsVideoProcessed(file, tasks[t].videos[1])

\* C21: within one channel goroutine the videos are handled one at a time in
\* the order of the list GetChannelVideos returned: the first check is that
\* of videos[1]; the check of videos[i+1] starts only in the step that ends
\* the handling of videos[i] (skip, success or failure); while a video is
\* being checked or processed the list and the index stay as they are.
Thm_C21 ==
  [][\A t \in Rows :
       /\ (tasks[t].pc = "discover" /\ tasks'[t].pc = "check") =>
            tasks'[t].vi = 1
       /\ (tasks[t].pc = "check" \/ InProcessVideo(t)) =>
            /\ tasks'[t].videos = tasks[t].videos
            /\ \/ /\ tasks'[t].vi = tasks[t].vi
                  /\ tasks'[t].pc = "check" => tasks[t].pc = "check"
               \/ /\ tasks'[t].vi = tasks[t].vi + 1
                  /\ tasks'[t].pc = IF tasks[t].vi < Len(tasks[t].videos)
                                      THEN "check" ELSE "release"
       /\ (tasks'[t].pc = "check" /\ tasks[t].pc # "check") =>
            \/ tasks[t].pc = "discover"
            \/ InProcessVideo(t) /\ tasks'[t].vi = tasks[t].vi + 1
    ]_vars

\* C21 witness: a goroutine checks the second video of its list after the
\* first one went through processVideo successfully.
Wit_C21 ==
  \E t \in Rows :
    /\ tasks[t].pc = "check"
    /\ tasks[t].vi = 2
    /\ tasks[t].videos[1] \in okVideos

\* C22: a video id that the ProcessedVideos sheet has once held (so that
\* IsVideoProcessed reported it) is held by the workbook on disk ever after.
Cex_C22 == everMarked \subseteq Range(file.processed)

\* C27: when the Channels sheet is empty and GetChannels succeeded,
\* ProcessNewVideos returns nil, no goroutine was started (so neither
\* GetChannelVideos nor the transcript client nor Summarize was called), and
\* the workbook is the one the run started with.
Thm_C27 ==
  (Len(channels) = 0 /\ PostReturn /\ ~listFailed) =>
    /\ result = "nil"
    /\ \A t \in Rows : tasks[t].pc = "none" /\ attempts[t] = 0
    /\ sem = 0 /\ wg = 0 /\ errorsChan = <<>>
    /\ written = {} /\ markWritten = {} /\ okVideos = {} /\ sumFailed = {}
    /\ file = EmptyFile
    /\ everMarked = {} /\ everProcessed = {}

\* C27 witness: the second run over an empty Channels sheet has returned.
Wit_C27 ==
  /\ Len(channels) = 0
  /\ mainPc = "returned"
  /\ ~listFailed
  /\ run = 2

\* The goroutine of row t got an empty list from GetChannelVideos and
\* processChannel has returned nil: it is at its deferred calls.
ZeroVideos(t) ==
  /\ attempts[t] = 1
  /\ t \notin discFailed
  /\ tasks[t].pc = "release"
  /\ tasks[t].videos = <<>>

\* C28: when GetChannelVideos returns zero videos, processChannel returns nil
\* at once: the goroutine goes to the release of its slot without a step of
\* the loop (no IsVideoProcessed, no transcript, no Summarize, no SaveSummary,
\* no MarkVideoProcessed), it leaves the workbook as it is, it is never put
\* on errorsChan, and no video failure is recorded for it.
Thm_C28 ==
  [][\A t \in Rows :
       /\ (/\ tasks[t].pc = "discover"
           /\ tasks'[t].pc # "discover"
           /\ discFailed' = discFailed
           /\ tasks'[t].videos = <<>>) =>
            /\ ZeroVideos(t)'
            /\ file' = file
            /\ errorsChan' = errorsChan
            /\ vidFailed' = vidFailed
            /\ sumFailed' = sumFailed
            /\ videoHist' = videoHist
       /\ ZeroVideos(t) =>
            /\ t \notin Range(errorsChan)
            /\ t \notin vidFailed
            /\ tasks'[t] # tasks[t] =>
                 /\ tasks'[t].pc = "done"
                 /\ file' = file
                 /\ errorsChan' = errorsChan
                 /\ vidFailed' = vidFailed
                 /\ sumFailed' = sumFailed
                 /\ videoHist' = videoHist
    ]_vars

\* C28 witness: the second channel's goroutine got zero videos and is about
\* to finish, after the first channel's goroutine got zero videos and
\* finished; nothing is on errorsChan and the workbook is empty.
Wit_C28 ==
  /\ Len(channels) = 2
  /\ ZeroVideos(2)
  /\ tasks[1].pc = "done"
  /\ attempts[1] = 1
  /\ errorsChan = <<>>
  /\ file = EmptyFile
  /\ faults = 0

\* C25: the Summary GetPendingSummaries returns for a record SaveSummary
\* stored carries the record's video id, title, channel name, summary text,
\* video URL, published time, thumbnail URL, duration and view count.
Cex_C25 ==
  (rt.pc = "done" /\ rt.result = "nil") =>
    /\ Len(rt.read) = 1
    /\ rt.read[1].VideoID = rt.record.VideoID
    /\ rt.read[1].VideoTitle = rt.record.VideoTitle
    /\ rt.read[1].ChannelName = rt.record.ChannelName
    /\ rt.read[1].Summary = rt.record.Summary
    /\ rt.read[1].VideoURL = rt.record.VideoURL
    /\ rt.read[1].PublishedAt = rt.record.PublishedAt
    /\ rt.read[1].ThumbnailURL = rt.record.ThumbnailURL
    /\ rt.read[1].Duration = rt.record.Duration
    /\ rt.read[1].ViewCount = rt.record.ViewCount

\* C23: once the ctx of ProcessNewVideos is cancelled, no new work starts:
\* no goroutine calls GetChannelVideos, and no goroutine begins the check of
\* a further video of its list; the call a goroutine is in may complete.
Cex_C23 ==
  [][cancelled =>
       \A t \in Rows :
         /\ ~(tasks[t].pc = "discover" /\ attempts'[t] > attempts[t])
         /\ ~(tasks[t].pc # "check" /\ tasks'[t].pc = "check")
    ]_vars

\* C24: once the per-video timeout has expired, the network call processVideo
\* is in fails: neither the transcript request nor Summarize returns a
\* result after the deadline of videoCtx.
Cex_C24 ==
  [][pv.videoCtxDone =>
       /\ ~(pv.pc = "start" /\ pv'.pc = "truncate" /\ ~pv'.acqFailed)
       /\ ~(pv.pc = "summarize" /\ pv'.pc = "save")
    ]_vars

\* The rows of the Summaries sheet whose status cell is "New".
NewRows(f) == {i \in DOMAIN f.summaries : f.summaries[i].status = "New"}

\* C29: a successful ProcessPendingSummariesForEmail call returns the rows
\* whose status is New, each once and in sheet order, and nothing else; the
\* call, successful or not, first or repeated, leaves the workbook (every
\* status, every processed-mark) as it was.
Thm_C29 ==
  [][(api'.calls = api.calls + 1 /\ api'.op = "pending") =>
       /\ file' = file
       /\ ~api'.err =>
            /\ Len(api'.summaries) = Cardinality(NewRows(file))
            /\ \A i \in NewRows(file) :
                 \E j \in DOMAIN api'.summaries :
                   api'.summaries[j] = file.summaries[i]
            /\ \A j \in DOMAIN api'.summaries :
                 api'.summaries[j].status = "New"
            /\ \A j, k \in DOMAIN api'.summaries :
                 j < k => \E i, l \in NewRows(file) :
                            /\ i < l
                            /\ file.summaries[i] = api'.summaries[j]
                            /\ file.summaries[l] = api'.summaries[k]
    ]_vars

\* C29 witness: after two accessor calls, the last one has returned the one
\* New summary of a sheet that also holds a Processed one.
Wit_C29 ==
  /\ api.calls = 2
  /\ api.op = "pending"
  /\ ~api.err
  /\ Len(api.summaries) = 1
  /\ Len(file.summaries) = 2
  /\ NewRows(file) = {2}

\* C30: a successful GetSummaryStats call reports as pending the number of
\* rows whose status is New when it is called; the call leaves the workbook
\* as it was.
Thm_C30 ==
  [][(api'.calls = api.calls + 1 /\ api'.op = "stats") =>
       /\ file' = file
       /\ ~api'.err => api'.pending = Cardinality(NewRows(file))
    ]_vars

\* C30 witness: the call reported one pending summary for a sheet that holds
\* a New and a Processed one.
Wit_C30 ==
  /\ api.op = "stats"
  /\ ~api.err
  /\ api.pending = 1
  /\ Len(file.summaries) = 2
  /\ NewRows(file) = {2}

\* The video of the scenario that the ledger does not hold at the start.
ScenarioNewVideo == CHOOSE v \in {1, 3} : ~IsVideoProcessed(fileAtStart, v)

\* C26: in the scenario (two channel rows; the first channel's list holds one
\* video the ledger marks as processed and one it does not, the second
\* channel's list is empty), when ProcessNewVideos has returned and every
\* call of the run succeeded, the Summaries sheet is the one of the start
\* plus exactly one row, status New, for the new video, the ProcessedVideos
\* sheet is the one of the start plus exactly the new video, and the second
\* channel's goroutine changed nothing: whatever the interleaving and K.
Thm_C26 ==
  (mainPc = "returned" /\ faults = 0) =>
    /\ result = "nil"
    /\ errorCount = 0
    /\ Len(file.summaries) = Len(fileAtStart.summaries) + 1
    /\ SubSeq(file.summaries, 1, Len(fileAtStart.summaries)) =
         fileAtStart.summaries
    /\ file.summaries[Len(file.summaries)].vid = ScenarioNewVideo
    /\ file.summaries[Len(file.summaries)].status = "New"
    /\ file.processed = Append(fileAtStart.processed, ScenarioNewVideo)
    /\ okVideos = {ScenarioNewVideo}
    /\ \A t \in 1..Len(channels) : attempts[t] = 1

\* C26 witness: the scenario's run has returned after the older video was
\* skipped and the newer one processed.
Wit_C26 ==
  /\ mainPc = "returned"
  /\ faults = 0
  /\ IsVideoProcessed(fileAtStart, 1)
  /\ IsVideoProcessed(file, 3)
  /\ SummaryCount(file, 3) = 1

\* C31: errorsChan never holds more errors than there are channels, every
\* channel is on it at most once, and a goroutine that is about to send its
\* error always finds room: the send does not wait for the collecting loop,
\* which starts only after the join.
Thm_C31 ==
  /\ Len(errorsChan) <= Len(channels)
  /\ \A i, j \in DOMAIN errorsChan : errorsChan[i] = errorsChan[j] => i = j
  /\ \A t \in Rows :
       tasks[t].pc = "send_err" =>
         /\ t \notin Range(errorsChan)
         /\ Len(errorsChan) < Len(channels)
         /\ ENABLED SendErr(t)

\* C31 witness: both channels failed and the second goroutine is about to
\* send its error while the first one's is still queued.
Wit_C31 ==
  /\ Len(channels) = 2
  /\ mainPc = "wait"
  /\ \E t \in Rows :
       /\ tasks[t].pc = "send_err"
       /\ Len(errorsChan) = 1

\* C32: when the RapidAPI request has failed, GetTranscriptWithThumbnail
\* still returns a transcript, the mock one.
Cex_C32 ==
  (pv.rapidFailed /\ pv.pc \notin {"start", "alternative"}) =>
    /\ ~pv.acqFailed
    /\ pv.raw = MockTranscript(TextVideoID)

\* C33: after a failed acquisition the transcript is the labelled title
\* and description when that text has at least 50 bytes and the templated
\* sentence with the title otherwise, and the thumbnail is the maxresdefault
\* URL of the video id; after a successful acquisition the transcript and
\* the thumbnail are the ones the transcript client returned. The Summarizer
\* gets that transcript as lines 187-190 cut it.
Thm_C33 ==
  pv.pc \notin {"idle", "start", "alternative"} =>
    /\ IF pv.acqFailed
         THEN /\ Len(LabelledFallback(pv.video)) >= 50 =>
                   pv.raw = "Video Title: " \o pv.video.title
                              \o "\n\nVideo Description: "
                              \o pv.video.description
              /\ Len(LabelledFallback(pv.video)) < 50 =>
                   /\ pv.raw = GenericFallback(pv.video)
                   /\ pv.video.description # "" =>
                        ~Contains(pv.raw, pv.video.description)
              /\ pv.thumbnailURL =
                   "https://img.youtube.com/vi/v1/maxresdefault.jpg"
         ELSE /\ pv.raw = pv.dataTranscript
              /\ pv.thumbnailURL = pv.dataThumbnail
              /\ pv.raw \in RealTranscripts \cup {MockTranscript(TextVideoID)}
    /\ Summarized => pv.handed = Truncated(pv.raw, pv.mtl)

\* C33 witness: the RapidAPI request and the alternative client failed for
\* a video whose labelled text has exactly 50 bytes; the Summarizer got the
\* labelled text and the thumbnail is the maxresdefault URL.
Wit_C33 ==
  /\ pv.rapidFailed /\ pv.acqFailed
  /\ Summarized
  /\ Len(LabelledFallback(pv.video)) = 50
  /\ pv.handed = LabelledFallback(pv.video)
  /\ pv.thumbnailURL = MaxResThumbnail(TextVideoID)

\* C34: the step in which IsVideoProcessed fails for a video starts no
\* processVideo for it and writes nothing: the workbook, the summaries
\* written, the marks written and the videos processed stay as they are; the
\* loop moves to the next video of the list (or ends after the last one),
\* never back; nothing is sent on errorsChan and the channel is not counted
\* as failed.
Thm_C34 ==
  [][\A t \in Rows :
       (tasks[t].pc = "check" /\ tasks'[t] # tasks[t] /\ faults' # faults) =>
         /\ ~InProcessVideo(t)'
         /\ tasks'[t].videos = tasks[t].videos
         /\ tasks'[t].vi = tasks[t].vi + 1
         /\ tasks'[t].pc = IF tasks[t].vi < Len(tasks[t].videos)
                             THEN "check" ELSE "release"
         /\ file' = file
         /\ <<written, markWritten, okVideos>>' =
              <<written, markWritten, okVideos>>
         /\ sumFailed' = sumFailed
         /\ errorsChan' = errorsChan
         /\ discFailed' = discFailed /\ vidFailed' = vidFailed
         /\ errorCount' = errorCount
    ]_vars

\* C34 witness: the check of the first video of a channel failed (the only
\* fault of the run): the goroutine is checking the second video, the first
\* is not marked, nothing failed in processVideo and nothing is on
\* errorsChan.
Wit_C34 ==
  /\ run = 1 /\ faults = 1
  /\ okVideos = {} /\ sumFailed = {} /\ vidFailed = {} /\ discFailed = {}
  /\ errorsChan = <<>>
  /\ \E t \in Rows :
       /\ tasks[t].pc = "check"
       /\ tasks[t].vi = 2
       /\ ~IsVideoProcessed(file, tasks[t].videos[1])
       /\ written = {}

\* C35: whatever mark calls have been made for a video id, one after the
\* other or at the same time, the ProcessedVideos sheet holds the id at most
\* once.
Cex_C35 ==
  \A v \in 1..NumVideos : MarkCount(file, v) <= 1

\* C38: two goroutines of one run that discovered the same unprocessed video
\* never both save a Summary for it: the Summaries sheet holds at most one
\* record per video id.
Cex_C38 ==
  \A i, j \in DOMAIN file.summaries :
    file.summaries[i].vid = file.summaries[j].vid => i = j

\* C36: when MarkSummariesProcessed(ids) returns nil, the Summaries sheet has
\* the same rows as before with status Processed for exactly the rows whose
\* id is in ids (and the status they had for the others), every other field
\* as it was, and the ProcessedVideos sheet and the channel list are as they
\* were.
Cex_C36 ==
  [][(mainPc = "msp_write" /\ mainPc' = "exit") =>
       /\ DOMAIN file'.summaries = DOMAIN file.summaries
       /\ \A i \in DOMAIN file.summaries :
            /\ file'.summaries[i].id = file.summaries[i].id
            /\ file'.summaries[i].vid = file.summaries[i].vid
            /\ file'.summaries[i].status =
                 IF file.summaries[i].id \in summaryIDs
                   THEN "Processed"
                   ELSE file.summaries[i].status
       /\ file'.processed = file.processed
       /\ channels' = channels
    ]_vars

\* C37: with a concurrency limit of at least 1 and collaborator calls that
\* return, ProcessNewVideos returns: every channel goroutine waiting at the
\* semaphore gets a slot, every goroutine that has a slot ends, the step
\* that ends a goroutine gives its slot back whether or not its channel
\* failed, and wg.Wait returns.
Thm_C37 ==
  /\ maxConcurrent >= 1 => <>(mainPc = "returned")
  /\ \A t \in Rows :
       /\ (tasks[t].pc = "acquire") ~> (tasks[t].pc = "discover")
       /\ (tasks[t].pc = "discover") ~> (tasks[t].pc = "done")
  /\ [][\A t \in Rows :
          (tasks[t].pc # "done" /\ tasks'[t].pc = "done") =>
            /\ tasks[t].pc = "release"
            /\ sem' = sem - 1
            /\ wg' = wg - 1]_vars
  /\ [](mainPc = "returned" => sem = 0 /\ wg = 0)

\* C37 witness: two channels behind a semaphore of one slot; the call has
\* returned after one channel failed and the other was processed.
Wit_C37 ==
  /\ mainPc = "returned"
  /\ maxConcurrent = 1
  /\ Len(channels) = 2
  /\ errorCount = 1
  /\ okVideos # {}
  /\ \A t \in Rows : tasks[t].pc = "done"

\* C39: the digest step is entered only when ProcessNewVideos returned nil.
\* When it returned the channel-list error, runApp's next step is its
\* return: the pending summaries are not read, no digest is sent,
\* MarkSummariesProcessed is not called and the workbook stays as it was
\* when the run started.
Thm_C39 ==
  /\ [](mainPc \in {"send", "msp_open", "msp_write"} => result = "nil")
  /\ [](result = "error" =>
          /\ listFailed
          /\ mainPc \in {"returned", "exit"}
          /\ batch = <<>> /\ summaryIDs = {}
          /\ file = fileAtStart)
  /\ [][(mainPc = "returned" /\ result = "error") =>
          /\ mainPc' = "exit"
          /\ file' = file
          /\ batch' = batch
          /\ <<summaryIDs, sentOk, acked, unsent>>' =
               <<summaryIDs, sentOk, acked, unsent>>
          /\ everProcessed' = everProcessed
       ]_vars

\* C39 witness: run 1 left a New summary on the sheet (no email service);
\* in run 2 GetChannels failed and runApp has returned with the summary
\* still New and no digest made.
Wit_C39 ==
  /\ run = 2
  /\ mainPc = "exit"
  /\ result = "error"
  /\ batch = <<>>
  /\ sentOk = {}
  /\ \E i \in DOMAIN file.summaries : file.summaries[i].status = "New"

====
